---- MODULE Spec2Model ----
(***************************************************************************)
(* Social listening pipeline: source adapters -> aggregator -> analysis    *)
(* orchestrator -> response parser.                                        *)
(*                                                                         *)
(* Strings are sequences of tokens.  A token is one emoji, one bold header *)
(* text, one whitespace character, one word, or one fixed message of the   *)
(* program.  The empty string is <<>>.                                     *)
(***************************************************************************)
EXTENDS Integers, Sequences, FiniteSets, TLC

VARIABLES
    env,            \* process.env: which credentials are configured
    pc,             \* position of the analysis run
    redditData,     \* resolved value of searchReddit(...), or NotYet
    bingData,       \* resolved value of searchBing(...), or NotYet
    aggregatedData, \* local of analyzeBrandSentiment (NoData = null)
    useRealData,    \* local of analyzeBrandSentiment
    blockRaised,    \* history: the guarded fetch-and-aggregate block raised
    calls,          \* history: calls of the two analysis methods
    message,        \* outcome of client.messages.create, or NotYet
    result,         \* value analyzeSocialListening resolved with, or NotYet
    thrown,         \* error analyzeSocialListening rejected with, or <<>>
    parseInput,     \* argument of a direct parseResponse call
    parseOutput,    \* its return value, or NotYet
    adapterCall,    \* the adapter export being executed, with its arguments
    searches,       \* its per-subreddit or per-category searches
    issued,         \* history: transport calls issued by each search
    outcomes,       \* history: kinds of outcome the transport calls had
    adapterResult,  \* what the adapter export settled with, or NotYet
    event,          \* the function_executed event Slack delivered
    handlers        \* the two workflow-step handlers of the Slack app

\* the variables of the adapter calls
adapterVars == <<adapterCall, searches, issued, outcomes, adapterResult>>

\* the variables of the workflow-step handlers
handlerVars == <<event, handlers>>

\* the variables of the analysis run and of the direct parseResponse call
runVars == <<env, pc, redditData, bingData, aggregatedData, useRealData,
             blockRaised, calls, message, result, thrown, parseInput, parseOutput>>

vars == <<runVars, adapterVars, handlerVars>>

----------------------------------------------------------------------------
(* Bounds of the model *)

MaxPosts == 2

MaxResults == 1

Urls == {"u1", "u2"}

NotYet == [kind |-> "notyet"]

NoData == [kind |-> "null"]

----------------------------------------------------------------------------
(* JavaScript values handed to parseResponse *)

Str(s) == [kind |-> "string", text |-> s]

JsNull == [kind |-> "null", text |-> <<>>]

JsUndefined == [kind |-> "undefined", text |-> <<>>]

JsNumber(n) == [kind |-> "number", text |-> <<n>>]

\* JavaScript truthiness of a value
Truthy(v) ==
    CASE v.kind = "string" -> v.text # <<>>
      [] v.kind = "number" -> v.text # <<"0">>
      [] OTHER -> FALSE

----------------------------------------------------------------------------
(* Source adapters, at their exported interface *)

\* sequences over S of length at most n
RECURSIVE SeqsUpTo(_, _)
SeqsUpTo(S, n) ==
    IF n = 0 THEN {<<>>}
    ELSE LET shorter == SeqsUpTo(S, n - 1)
         IN  shorter \cup {Append(s, x) : s \in shorter, x \in S}

Post(u) == [url |-> u]

WebResult(u) == [url |-> u]

\* post lists RedditService.searchReddit can resolve with
PostLists == SeqsUpTo({Post(u) : u \in Urls}, MaxPosts)

\* RedditService.formatForClaude
RedditFormatForClaude(posts) ==
    IF Len(posts) = 0 THEN <<"No Reddit posts found for this brand.">>
    ELSE <<"REDDIT DATA">>

\* searchReddit (module export): its possible resolved values
SearchRedditOutcomes ==
    IF ~env.reddit
    THEN {[posts |-> <<>>,
           formattedText |-> <<"Reddit data unavailable (API credentials not configured)">>]}
    ELSE {[posts |-> p, formattedText |-> RedditFormatForClaude(p)] : p \in PostLists}
         \cup {[posts |-> <<>>, formattedText |-> <<"Reddit search error">>]}

\* SerperSearchService.deduplicateResults
RECURSIVE deduplicateResults(_)
deduplicateResults(results) ==
    IF results = <<>> THEN <<>>
    ELSE LET front == deduplicateResults(SubSeq(results, 1, Len(results) - 1))
             last == results[Len(results)]
         IN  IF \E i \in 1..Len(front) : front[i].url = last.url
             THEN front ELSE Append(front, last)

\* result lists one category search (searchLinkedIn, ...) can resolve with
CategoryLists ==
    {deduplicateResults(r) : r \in SeqsUpTo({WebResult(u) : u \in Urls}, MaxResults)}

SerperFormatForClaudeBlank(total) ==
    IF total = 0 THEN <<>> ELSE <<"WEB DATA">>

\* SerperSearchService.formatForClaude
SerperFormatForClaude(total) ==
    IF total = 0 THEN <<"No web search results found.">> ELSE <<"WEB DATA">>

\* searchSerper (module export, alias searchBing): its possible resolved values
SearchSerperOutcomes ==
    LET empty(status) ==
            [linkedin |-> <<>>, twitter |-> <<>>, reviews |-> <<>>, blogs |-> <<>>,
             formattedText |-> <<status>>, totalResults |-> 0]
    IN  IF ~env.serper
        THEN {empty("Web search data unavailable (Serper API key not configured)")}
        ELSE {[linkedin |-> l, twitter |-> t, reviews |-> r, blogs |-> b,
               formattedText |-> SerperFormatForClaude(Len(l) + Len(t) + Len(r) + Len(b)),
               totalResults |-> Len(l) + Len(t) + Len(r) + Len(b)] :
                  l \in CategoryLists, t \in CategoryLists,
                  r \in CategoryLists, b \in CategoryLists}
             \cup {empty("Web search error")}

----------------------------------------------------------------------------
(* Aggregator: src/data-aggregator.js *)

\* DataAggregator.calculateMetrics
calculateMetrics(reddit, linkedin, twitter, reviews, blogs) ==
    [totalSources |-> reddit.totalMentions + linkedin.totalResults
                      + twitter.totalResults + reviews.totalResults
                      + blogs.totalResults,
     platforms |-> (IF reddit.totalMentions > 0 THEN <<"Reddit">> ELSE <<>>)
                   \o (IF linkedin.totalResults > 0 THEN <<"LinkedIn">> ELSE <<>>)
                   \o (IF twitter.totalResults > 0 THEN <<"Twitter/X">> ELSE <<>>)
                   \o (IF reviews.totalResults > 0 THEN <<"Review Sites">> ELSE <<>>)
                   \o (IF blogs.totalResults > 0 THEN <<"Blogs">> ELSE <<>>),
     platformBreakdown |-> [reddit |-> reddit.totalMentions,
                            linkedin |-> linkedin.totalResults,
                            twitter |-> twitter.totalResults,
                            reviews |-> reviews.totalResults,
                            blogs |-> blogs.totalResults]]

determineDataSourceEither(reddit, bing) ==
    IF reddit.totalMentions > 0 \/ bing.totalResults > 0 THEN "real-time"
    ELSE "fallback"

\* DataAggregator.determineDataSource
determineDataSource(reddit, bing) ==
    LET hasReddit == reddit.totalMentions > 0
        hasBing == bing.totalResults > 0
    IN  IF hasReddit /\ hasBing THEN "real-time"
        ELSE IF hasReddit \/ hasBing THEN "partial"
        ELSE "fallback"

\* "a, b, c": Array.prototype.join(', ')
RECURSIVE JoinNames(_)
JoinNames(names) ==
    IF names = <<>> THEN <<>>
    ELSE IF Len(names) = 1 THEN names
    ELSE <<Head(names), ", ">> \o JoinNames(Tail(names))

\* the lines formatForClaudeAnalysis writes for the results of one bucket
RECURSIVE ResultLines(_)
ResultLines(results) ==
    IF results = <<>> THEN <<>>
    ELSE <<"URL: ", Head(results).url>> \o ResultLines(Tail(results))

\* the block formatForClaudeAnalysis writes for one web bucket
WebBlock(title, bucket) ==
    IF bucket.totalResults > 0
    THEN <<title, ToString(bucket.totalResults)>> \o ResultLines(bucket.results)
    ELSE <<>>

\* DataAggregator.formatForClaudeAnalysis
formatForClaudeAnalysis(reddit, linkedin, twitter, reviews, blogs, stats) ==
    <<"TOTAL SOURCES: ", ToString(stats.totalSources), " mentions across ",
      ToString(Len(stats.platforms)), " platforms", "PLATFORMS: ">>
    \o JoinNames(stats.platforms)
    \o <<"PLATFORM BREAKDOWN:",
         "- Reddit: ", ToString(stats.platformBreakdown.reddit),
         "- LinkedIn: ", ToString(stats.platformBreakdown.linkedin),
         "- Twitter/X: ", ToString(stats.platformBreakdown.twitter),
         "- Review Sites: ", ToString(stats.platformBreakdown.reviews),
         "- Blogs: ", ToString(stats.platformBreakdown.blogs)>>
    \o (IF Len(reddit.formattedText) > 0 THEN reddit.formattedText ELSE <<>>)
    \o WebBlock("LINKEDIN DATA", linkedin)
    \o WebBlock("TWITTER/X DATA", twitter)
    \o WebBlock("REVIEW SITES DATA", reviews)
    \o WebBlock("BLOGS & FORUMS DATA", blogs)
    \o <<"ANALYSIS INSTRUCTIONS:", "Based on the REAL data above (",
         ToString(stats.totalSources), " total sources)">>

\* DataAggregator.aggregateResults (static method, before deduplication)
DataAggregatorAggregateResults(reddit0, bing) ==
    LET bucket(list) == [results |-> list, totalResults |-> Len(list)]
        reddit == [posts |-> reddit0.posts,
                   totalMentions |-> Len(reddit0.posts),
                   formattedText |-> reddit0.formattedText]
        linkedin == bucket(bing.linkedin)
        twitter == bucket(bing.twitter)
        reviews == bucket(bing.reviews)
        blogs == bucket(bing.blogs)
    IN  [kind |-> "data",
         reddit |-> reddit,
         linkedin |-> linkedin,
         twitter |-> twitter,
         reviews |-> reviews,
         blogs |-> blogs,
         aggregateStats |-> calculateMetrics(reddit, linkedin, twitter, reviews, blogs),
         dataSource |-> determineDataSource(reddit, bing),
         formattedForClaude |->
            formatForClaudeAnalysis(reddit, linkedin, twitter, reviews, blogs,
                calculateMetrics(reddit, linkedin, twitter, reviews, blogs))]

\* the filter callback of deduplicateEntries, run over one platform's results
\* with the running set seenUrls
RECURSIVE FilterSeen(_, _)
FilterSeen(results, seenUrls) ==
    IF results = <<>> THEN [kept |-> <<>>, seenUrls |-> seenUrls]
    ELSE LET r == Head(results)
         IN  IF r.url \in seenUrls
             THEN FilterSeen(Tail(results), seenUrls)
             ELSE LET rest == FilterSeen(Tail(results), seenUrls \cup {r.url})
                  IN  [kept |-> <<r>> \o rest.kept, seenUrls |-> rest.seenUrls]

deduplicateEntriesStaleTotal(agg) ==
    LET l == FilterSeen(agg.linkedin.results, {})
        t == FilterSeen(agg.twitter.results, l.seenUrls)
        r == FilterSeen(agg.reviews.results, t.seenUrls)
        b == FilterSeen(agg.blogs.results, r.seenUrls)
        bucket(f) == [results |-> f.kept, totalResults |-> Len(f.kept)]
    IN  [agg EXCEPT !.linkedin = bucket(l), !.twitter = bucket(t),
                    !.reviews = bucket(r), !.blogs = bucket(b)]

deduplicateEntriesOneBucketPerPass(agg) ==
    LET none(results, seenUrls) ==
            [kept |-> results,
             seenUrls |-> seenUrls \cup {results[i].url : i \in 1..Len(results)}]
        l == FilterSeen(agg.linkedin.results, {})
        t == FilterSeen(agg.twitter.results, l.seenUrls)
        tDropped == Len(t.kept) < Len(agg.twitter.results)
        r == IF tDropped THEN none(agg.reviews.results, t.seenUrls)
             ELSE FilterSeen(agg.reviews.results, t.seenUrls)
        rDropped == tDropped \/ Len(r.kept) < Len(agg.reviews.results)
        b == IF rDropped THEN none(agg.blogs.results, r.seenUrls)
             ELSE FilterSeen(agg.blogs.results, r.seenUrls)
        bucket(f) == [results |-> f.kept, totalResults |-> Len(f.kept)]
        totalSources == agg.reddit.totalMentions + Len(l.kept) + Len(t.kept)
                        + Len(r.kept) + Len(b.kept)
    IN  [agg EXCEPT !.linkedin = bucket(l), !.twitter = bucket(t),
                    !.reviews = bucket(r), !.blogs = bucket(b),
                    !.aggregateStats.totalSources = totalSources]

deduplicateEntriesForumFirst(agg) ==
    LET forum == {agg.reddit.posts[i].url : i \in 1..Len(agg.reddit.posts)}
        l == FilterSeen(agg.linkedin.results, forum)
        t == FilterSeen(agg.twitter.results, l.seenUrls)
        r == FilterSeen(agg.reviews.results, t.seenUrls)
        b == FilterSeen(agg.blogs.results, r.seenUrls)
        bucket(f) == [results |-> f.kept, totalResults |-> Len(f.kept)]
        totalSources == agg.reddit.totalMentions + Len(l.kept) + Len(t.kept)
                        + Len(r.kept) + Len(b.kept)
    IN  [agg EXCEPT !.linkedin = bucket(l), !.twitter = bucket(t),
                    !.reviews = bucket(r), !.blogs = bucket(b),
                    !.aggregateStats.totalSources = totalSources]

\* DataAggregator.deduplicateEntries
deduplicateEntries(agg) ==
    LET l == FilterSeen(agg.linkedin.results, {})
        t == FilterSeen(agg.twitter.results, l.seenUrls)
        r == FilterSeen(agg.reviews.results, t.seenUrls)
        b == FilterSeen(agg.blogs.results, r.seenUrls)
        bucket(f) == [results |-> f.kept, totalResults |-> Len(f.kept)]
        totalSources == agg.reddit.totalMentions + Len(l.kept) + Len(t.kept)
                        + Len(r.kept) + Len(b.kept)
    IN  [agg EXCEPT !.linkedin = bucket(l), !.twitter = bucket(t),
                    !.reviews = bucket(r), !.blogs = bucket(b),
                    !.aggregateStats.totalSources = totalSources]

\* aggregateResults (module export)
aggregateResults(reddit0, bing) ==
    deduplicateEntries(DataAggregatorAggregateResults(reddit0, bing))

----------------------------------------------------------------------------
(* Response parser: SocialListeningService.parseResponse *)

\* the six emoji the section patterns mention
E_CHART == "E_CHART"

E_CHECK == "E_CHECK"

E_WARN == "E_WARN"

E_FIRE == "E_FIRE"

E_TARGET == "E_TARGET"

E_BULB == "E_BULB"

\* the bullet glyph U+2022 the prompt asks for
BULLET == "(bullet)"

Sections == {"sentiment", "positive", "concerns", "trending", "competitive"}

\* the emoji, the bold text and the lookahead alternatives of each pattern
Pattern(section) ==
    CASE section = "sentiment" ->
            [emoji |-> E_CHART, bold |-> "**SENTIMENT BREAKDOWN**",
             stops |-> {E_CHECK, E_WARN, E_FIRE, E_TARGET, E_BULB}]
      [] section = "positive" ->
            [emoji |-> E_CHECK, bold |-> "**POSITIVE HIGHLIGHTS**",
             stops |-> {E_WARN, E_FIRE, E_TARGET, E_BULB, E_CHART}]
      [] section = "concerns" ->
            [emoji |-> E_WARN, bold |-> "**CRITICAL CONCERNS**",
             stops |-> {E_FIRE, E_TARGET, E_BULB, E_CHART, E_CHECK}]
      [] section = "trending" ->
            [emoji |-> E_FIRE, bold |-> "**TRENDING TOPICS**",
             stops |-> {E_TARGET, E_BULB, E_CHART, E_CHECK, E_WARN}]
      [] section = "competitive" ->
            [emoji |-> E_TARGET, bold |-> "**COMPETITIVE INSIGHTS**",
             stops |-> {E_CHART, E_CHECK, E_WARN, E_FIRE}]

\* \s of the regular expressions, and what String.prototype.trim strips
IsSpace(tok) == tok \in {" ", "\n"}

\* position of the bold text when text[i] starts the header of the pattern
\* (emoji, \s*, bold text), 0 otherwise
HeaderEnd(text, i, pat) ==
    IF text[i] # pat.emoji THEN 0
    ELSE LET after == {j \in (i + 1)..Len(text) : ~IsSpace(text[j])}
         IN  IF after = {} THEN 0
             ELSE LET j == CHOOSE m \in after : \A n \in after : m <= n
                  IN  IF text[j] = pat.bold THEN j ELSE 0

NoMatch == [matched |-> FALSE, group |-> <<>>]

\* text.match(/<emoji>\s*\*\*<BOLD>\*\*(.*?)(?=<stops>|$)/s): the leftmost
\* header, then the shortest capture that is followed by a stop or by the end
RegexMatch(text, pat) ==
    LET starts == {i \in 1..Len(text) : HeaderEnd(text, i, pat) # 0}
    IN  IF starts = {} THEN NoMatch
        ELSE LET i == CHOOSE m \in starts : \A n \in starts : m <= n
                 from == HeaderEnd(text, i, pat) + 1
                 ends == {k \in from..(Len(text) + 1) :
                             k = Len(text) + 1 \/ text[k] \in pat.stops}
                 to == CHOOSE m \in ends : \A n \in ends : m <= n
             IN  [matched |-> TRUE, group |-> SubSeq(text, from, to - 1)]

\* String.prototype.trim
Trim(s) ==
    LET solid == {i \in 1..Len(s) : ~IsSpace(s[i])}
    IN  IF solid = {} THEN <<>>
        ELSE LET lo == CHOOSE m \in solid : \A n \in solid : m <= n
                 hi == CHOOSE m \in solid : \A n \in solid : m >= n
             IN  SubSeq(s, lo, hi)

\* lower case of one token
LowerTok(tok) ==
    CASE tok \in {"No", "NO"} -> "no"
      [] tok \in {"Critical", "CRITICAL"} -> "critical"
      [] tok \in {"Concerns", "CONCERNS"} -> "concerns"
      [] tok \in {"Significant", "SIGNIFICANT"} -> "significant"
      [] tok \in {"Issues", "ISSUES"} -> "issues"
      [] tok = "CRITICAL:" -> "critical:"
      [] tok = "A" -> "a"
      [] tok = "E" -> "e"
      [] tok = "H" -> "h"
      [] tok = "K" -> "k"
      [] tok = "O" -> "o"
      [] tok = "R" -> "r"
      [] tok = "U" -> "u"
      [] tok = "W" -> "w"
      [] tok = "Y" -> "y"
      [] OTHER -> tok

\* String.prototype.toLowerCase without the conversion
toLowerCaseAsIs(s) == s

\* String.prototype.toLowerCase
toLowerCase(s) == [i \in 1..Len(s) |-> LowerTok(s[i])]

\* String.prototype.includes
includes(s, sub) ==
    \E i \in 1..(Len(s) - Len(sub) + 1) : SubSeq(s, i, i + Len(sub) - 1) = sub

NoCriticalConcerns == <<"no", " ", "critical", " ", "concerns">>

NoSignificantConcerns == <<"no", " ", "significant", " ", "concerns">>

NoCriticalIssues == <<"no", " ", "critical", " ", "issues">>

criticalIssuesCaseSensitive(negativeConcerns) ==
    /\ Len(negativeConcerns) > 0
    /\ ~includes(negativeConcerns, NoCriticalConcerns)
    /\ ~includes(negativeConcerns, NoSignificantConcerns)
    /\ ~includes(negativeConcerns, NoCriticalIssues)

\* the value assigned to sections.hasCriticalIssues when concernsMatch is set
criticalIssues(negativeConcerns) ==
    LET concernsLower == toLowerCase(negativeConcerns)
    IN  /\ Len(negativeConcerns) > 0
        /\ ~includes(concernsLower, NoCriticalConcerns)
        /\ ~includes(concernsLower, NoSignificantConcerns)
        /\ ~includes(concernsLower, NoCriticalIssues)

UnableToExtract == <<"Unable to extract sentiment data from response.">>

ManualReview == <<"Manual review of full report required.">>

UnableToParse == <<"Error: Unable to parse sentiment analysis.">>

ParsingErrorOccurred == <<"Error occurred during analysis parsing.">>

NoResponseReceived == <<"No response received from Claude.">>

parseResponseCatchCalm(responseText) ==
    [sentimentSummary |-> UnableToParse,
     positiveHighlights |-> <<>>,
     negativeConcerns |-> ParsingErrorOccurred,
     trendingTopics |-> <<>>,
     competitiveInsights |-> <<>>,
     hasCriticalIssues |-> FALSE,
     fullReport |-> responseText]

\* the catch block of parseResponse
parseResponseCatch(responseText) ==
    [sentimentSummary |-> UnableToParse,
     positiveHighlights |-> <<>>,
     negativeConcerns |-> ParsingErrorOccurred,
     trendingTopics |-> <<>>,
     competitiveInsights |-> <<>>,
     hasCriticalIssues |-> TRUE,
     fullReport |-> IF Truthy(responseText) THEN responseText
                    ELSE Str(NoResponseReceived)]

validateFlagging(sections) ==
    LET hasContent == \/ sections.sentimentSummary # <<>>
                      \/ sections.positiveHighlights # <<>>
                      \/ sections.negativeConcerns # <<>>
                      \/ sections.trendingTopics # <<>>
                      \/ sections.competitiveInsights # <<>>
    IN  IF ~hasContent
        THEN [sections EXCEPT !.sentimentSummary = UnableToExtract,
                              !.negativeConcerns = ManualReview,
                              !.hasCriticalIssues = TRUE]
        ELSE sections

\* the validation step of parseResponse: the generic messages when no section
\* has content
validate(sections) ==
    LET hasContent == \/ sections.sentimentSummary # <<>>
                      \/ sections.positiveHighlights # <<>>
                      \/ sections.negativeConcerns # <<>>
                      \/ sections.trendingTopics # <<>>
                      \/ sections.competitiveInsights # <<>>
    IN  IF ~hasContent
        THEN [sections EXCEPT !.sentimentSummary = UnableToExtract,
                              !.negativeConcerns = ManualReview]
        ELSE sections

\* the try block of parseResponse, for a string
parseResponseTry(responseText) ==
    LET text == responseText.text
        group(section) == 
            LET m == RegexMatch(text, Pattern(section))
            IN  IF m.matched THEN Trim(m.group) ELSE <<>>
        concernsMatch == RegexMatch(text, Pattern("concerns"))
    IN  validate(
          [sentimentSummary |-> group("sentiment"),
           positiveHighlights |-> group("positive"),
           negativeConcerns |-> group("concerns"),
           trendingTopics |-> group("trending"),
           competitiveInsights |-> group("competitive"),
           hasCriticalIssues |-> IF concernsMatch.matched
                                 THEN criticalIssues(group("concerns"))
                                 ELSE FALSE,
           fullReport |-> responseText])

\* SocialListeningService.parseResponse: responseText.match throws a
\* TypeError for anything that is not a string
parseResponse(responseText) ==
    IF responseText.kind = "string"
    THEN parseResponseTry(responseText)
    ELSE parseResponseCatch(responseText)

----------------------------------------------------------------------------
(* Replies of the text-generation call *)

BulletsPerSection == 3

SectionOrder == <<"sentiment", "positive", "concerns", "trending", "competitive">>

\* "<emoji> **<BOLD>**" on a line of its own, as the prompt lays it out
Header(section) == <<Pattern(section).emoji, " ", Pattern(section).bold, "\n">>

Bullet(words) == <<BULLET, " ">> \o words \o <<"\n">>

RECURSIVE Repeat(_, _)
Repeat(s, n) == IF n = 0 THEN <<>> ELSE s \o Repeat(s, n - 1)

PlainBullets(n) == Repeat(Bullet(<<"insight">>), n)

\* the lines under a section header
Body(kind) ==
    CASE kind = "plain" -> PlainBullets(BulletsPerSection) \o <<"\n">>
      [] kind = "empty" -> <<"\n">>
      [] kind = "absent" -> <<>>
      [] kind = "warn" ->
            Bullet(<<"insight">>) \o Bullet(<<E_WARN, " ", "caveat">>)
            \o PlainBullets(BulletsPerSection - 2) \o <<"\n">>
      [] kind = "bulb" ->
            Bullet(<<E_BULB, " ", "idea">>)
            \o PlainBullets(BulletsPerSection - 1) \o <<"\n">>
      [] kind = "critical" ->
            Bullet(<<"CRITICAL:", " ", "pricing", " ", "backlash">>)
            \o PlainBullets(BulletsPerSection - 1) \o <<"\n">>
      [] kind = "noCriticalConcerns" ->
            Bullet(<<"No", " ", "critical", " ", "concerns", " ", "identified">>)
            \o <<"\n">>
      [] kind = "noSignificantConcerns" ->
            Bullet(<<"no", " ", "significant", " ", "concerns">>) \o <<"\n">>
      [] kind = "noCriticalIssues" ->
            Bullet(<<"NO", " ", "CRITICAL", " ", "ISSUES", " ", "identified">>)
            \o <<"\n">>
      [] kind = "noCriticalApart" ->
            Bullet(<<"no", " ", "critical", " ", "pricing", " ", "concerns">>)
            \o <<"\n">>

\* the reply with the sections in this order, each with the body of its kind
RECURSIVE BuildReply(_, _)
BuildReply(order, kindOf) ==
    IF order = <<>> THEN <<>>
    ELSE LET section == Head(order)
         IN  (IF kindOf[section] = "absent" THEN <<>>
              ELSE Header(section) \o Body(kindOf[section]))
             \o BuildReply(Tail(order), kindOf)

Orders == {o \in [1..5 -> Sections] : \A i, j \in 1..5 : o[i] = o[j] => i = j}

\* every section of the base kind, but for one section of another kind
KindAssignments ==
    {[s \in Sections |-> base] : base \in {"plain", "empty"}}
    \cup {[s \in Sections |-> IF s = section THEN kind ELSE "plain"] :
             section \in Sections, kind \in {"empty", "absent", "warn", "bulb"}}
    \cup {[s \in Sections |-> IF s = "concerns" THEN kind ELSE base] :
             base \in {"plain", "empty"},
             kind \in {"critical", "noCriticalConcerns", "noSignificantConcerns",
                       "noCriticalIssues", "noCriticalApart"}}

SectionedReplies == {BuildReply(o, k) : o \in Orders, k \in KindAssignments}

MaxLen == 3

FreeTokens ==
    {E_CHART, "**SENTIMENT BREAKDOWN**", E_WARN, "**CRITICAL CONCERNS**",
     E_BULB, " ", BULLET, "text"}

FreeReplies == SeqsUpTo(FreeTokens, MaxLen)

\* what a caller can hand to parseResponse
ParseInputs ==
    {Str(t) : t \in SectionedReplies \cup FreeReplies}
    \cup {JsNull, JsUndefined, JsNumber("0"), JsNumber("5")}

\* replies the text-generation call resolves with in an analysis run
GenReplies ==
    {BuildReply(SectionOrder, [s \in Sections |-> "plain"]),
     BuildReply(SectionOrder,
                [s \in Sections |-> IF s = "concerns" THEN "noCriticalIssues" ELSE "plain"]),
     <<"text">>}

\* error messages the text-generation call rejects with
GenErrors == {"429 rate_limit_error"}

----------------------------------------------------------------------------
(* Analysis orchestrator: SocialListeningService *)

RECURSIVE join(_)
join(platforms) ==
    IF platforms = <<>> THEN <<>>
    ELSE IF Len(platforms) = 1 THEN platforms
    ELSE <<Head(platforms), ", ">> \o join(Tail(platforms))

RealDataBannerAlwaysRealTime(agg) ==
    <<"# Social Listening Report (Real-Time Data)",
      "**Data Source:** ", "Real-time API data",
      "**Sources:** ", ToString(agg.aggregateStats.totalSources), " mentions across ">>
    \o join(agg.aggregateStats.platforms) \o <<"---">>

\* the banner analyzeWithRealData puts in front of the reply
RealDataBanner(agg) ==
    <<"# Social Listening Report (Real-Time Data)",
      "**Data Source:** ",
      IF agg.dataSource = "real-time" THEN "Real-time API data" ELSE "Partial API data",
      "**Sources:** ", ToString(agg.aggregateStats.totalSources), " mentions across ">>
    \o join(agg.aggregateStats.platforms) \o <<"---">>

\* the banner analyzeWithClaudeKnowledge puts in front of the reply
FallbackBanner ==
    <<"# Social Listening Report (Training Data Fallback)",
      "**Data Source:** ", "Using Claude training data (API data unavailable)", "---">>

\* analyzeWithRealData, once client.messages.create resolved with fullResponse
analyzeWithRealData(agg, fullResponse) ==
    [parseResponse(Str(fullResponse)) EXCEPT
        !.fullReport = Str(RealDataBanner(agg) \o fullResponse)]

\* analyzeWithClaudeKnowledge, once client.messages.create resolved
analyzeWithClaudeKnowledge(fullResponse) ==
    [parseResponse(Str(fullResponse)) EXCEPT
        !.fullReport = Str(FallbackBanner \o fullResponse)]

analyzeBrandSentimentCatchQuiet(errorMessage) ==
    [sentimentSummary |-> <<>>,
     positiveHighlights |-> <<>>,
     negativeConcerns |-> <<>>,
     trendingTopics |-> <<>>,
     competitiveInsights |-> <<>>,
     fullReport |-> Str(<<"# Social Listening Analysis Error", "**Error:** ", errorMessage>>),
     hasCriticalIssues |-> FALSE,
     dataSource |-> "error"]

\* an error result that reports the fallback data source
analyzeBrandSentimentCatchAsFallback(errorMessage) ==
    [analyzeBrandSentimentCatchQuiet(errorMessage) EXCEPT !.dataSource = "fallback"]

\* the outer catch block of analyzeBrandSentiment
analyzeBrandSentimentCatch(errorMessage) ==
    [sentimentSummary |->
        <<"Error: Unable to complete social listening analysis. Please check API credentials and try again.">>,
     positiveHighlights |-> <<>>,
     negativeConcerns |-> <<"Analysis error occurred.">>,
     trendingTopics |-> <<>>,
     competitiveInsights |-> <<>>,
     fullReport |-> Str(<<"# Social Listening Analysis Error", "**Error:** ", errorMessage>>),
     hasCriticalIssues |-> TRUE,
     dataSource |-> "error"]

selectPathIgnoringFlag(use, agg) == IF agg # NoData THEN "real" ELSE "knowledge"

\* "if (useRealData && aggregatedData)"
selectPath(use, agg) == IF use /\ agg # NoData THEN "real" ELSE "knowledge"

dataSourceIndicatorLiteral(agg) == IF agg # NoData THEN "real-time" ELSE "fallback"

\* "analysisResult.dataSource = aggregatedData ? aggregatedData.dataSource : 'fallback'"
dataSourceIndicator(agg) == IF agg # NoData THEN agg.dataSource ELSE "fallback"

WithDataSource(analysisResult, ds) ==
    [f \in DOMAIN analysisResult \cup {"dataSource"} |->
        IF f = "dataSource" THEN ds ELSE analysisResult[f]]

\* no adapter export is being executed
AdaptersIdle ==
    /\ adapterCall = [fn |-> "none"]
    /\ searches = <<>>
    /\ issued = <<>>
    /\ outcomes = {}
    /\ adapterResult = NotYet

\* no event was delivered to the Slack app
HandlersIdle ==
    /\ event = [kind |-> "none"]
    /\ handlers = <<>>

Init ==
    /\ env \in [anthropic : BOOLEAN, reddit : BOOLEAN, serper : BOOLEAN]
    /\ pc = "start"
    /\ redditData = NotYet
    /\ bingData = NotYet
    /\ aggregatedData = NoData
    /\ useRealData = FALSE
    /\ blockRaised = FALSE
    /\ calls = [real |-> 0, knowledge |-> 0, create |-> 0]
    /\ message = NotYet
    /\ result = NotYet
    /\ thrown = <<>>
    /\ parseInput = JsNull
    /\ parseOutput = NotYet
    /\ AdaptersIdle
    /\ HandlersIdle

\* analyzeSocialListening up to the first await of analyzeBrandSentiment:
\* the credential check, the constructor, and the start of both fetches
AnalyzeSocialListening ==
    /\ pc = "start"
    /\ IF ~env.anthropic
       THEN /\ thrown' = <<"ANTHROPIC_API_KEY environment variable is not set">>
            /\ pc' = "rejected"
       ELSE /\ pc' = "fetching"
            /\ UNCHANGED thrown
    /\ UNCHANGED <<env, redditData, bingData, aggregatedData, useRealData,
                   blockRaised, calls, message, result, parseInput, parseOutput>>
    /\ UNCHANGED <<adapterVars, handlerVars>>

\* the promise of searchReddit(brand, timeRange) resolves
SearchRedditResolves ==
    /\ pc = "fetching"
    /\ redditData = NotYet
    /\ redditData' \in SearchRedditOutcomes
    /\ UNCHANGED <<env, pc, bingData, aggregatedData, useRealData, blockRaised,
                   calls, message, result, thrown, parseInput, parseOutput>>
    /\ UNCHANGED <<adapterVars, handlerVars>>

\* the promise of searchBing(brand, platforms) resolves
SearchBingResolves ==
    /\ pc = "fetching"
    /\ bingData = NotYet
    /\ bingData' \in SearchSerperOutcomes
    /\ UNCHANGED <<env, pc, redditData, aggregatedData, useRealData, blockRaised,
                   calls, message, result, thrown, parseInput, parseOutput>>
    /\ UNCHANGED <<adapterVars, handlerVars>>

StartAnalysisTwice(use, agg) ==
    /\ calls' = IF selectPath(use, agg) = "real"
                THEN [calls EXCEPT !.real = @ + 1, !.create = @ + 2]
                ELSE [calls EXCEPT !.knowledge = @ + 1, !.create = @ + 2]
    /\ pc' = "generating"

\* the analysis method the run calls next, and the call of
\* client.messages.create it makes before it awaits
StartAnalysis(use, agg) ==
    /\ calls' = IF selectPath(use, agg) = "real"
                THEN [calls EXCEPT !.real = @ + 1, !.create = @ + 1]
                ELSE [calls EXCEPT !.knowledge = @ + 1, !.create = @ + 1]
    /\ pc' = "generating"

\* aggregation as soon as the forum fetch resolved, with whatever the web
\* fetch has delivered so far
AggregateAfterForumFetch ==
    /\ pc = "fetching"
    /\ redditData # NotYet
    /\ LET web == IF bingData # NotYet THEN bingData
                  ELSE [linkedin |-> <<>>, twitter |-> <<>>, reviews |-> <<>>,
                        blogs |-> <<>>, formattedText |-> <<>>, totalResults |-> 0]
           agg == aggregateResults(redditData, web)
           use == agg.aggregateStats.totalSources > 0
       IN  /\ aggregatedData' = agg
           /\ useRealData' = use
           /\ StartAnalysis(use, agg)
    /\ UNCHANGED <<env, redditData, bingData, blockRaised, message, result,
                   thrown, parseInput, parseOutput>>
    /\ UNCHANGED <<adapterVars, handlerVars>>

\* Promise.all resolved: aggregate, decide useRealData, start the analysis
AggregateAndSelect ==
    /\ pc = "fetching"
    /\ redditData # NotYet
    /\ bingData # NotYet
    /\ LET agg == aggregateResults(redditData, bingData)
           use == agg.aggregateStats.totalSources > 0
       IN  /\ aggregatedData' = agg
           /\ useRealData' = use
           /\ StartAnalysis(use, agg)
    /\ UNCHANGED <<env, redditData, bingData, blockRaised, message, result,
                   thrown, parseInput, parseOutput>>
    /\ UNCHANGED <<adapterVars, handlerVars>>

\* the guarded block raises before aggregatedData is assigned: catch (apiError)
GuardedBlockRaises ==
    /\ pc = "fetching"
    /\ blockRaised' = TRUE
    /\ useRealData' = FALSE
    /\ StartAnalysis(FALSE, aggregatedData)
    /\ UNCHANGED <<env, redditData, bingData, aggregatedData, message, result,
                   thrown, parseInput, parseOutput>>
    /\ UNCHANGED <<adapterVars, handlerVars>>

\* client.messages.create resolves: parse, banner, data source, return
MessagesCreateResolves ==
    /\ pc = "generating"
    /\ \E fullResponse \in GenReplies :
          /\ message' = [kind |-> "ok", text |-> fullResponse]
          /\ result' = WithDataSource(
                           IF selectPath(useRealData, aggregatedData) = "real"
                           THEN analyzeWithRealData(aggregatedData, fullResponse)
                           ELSE analyzeWithClaudeKnowledge(fullResponse),
                           dataSourceIndicator(aggregatedData))
    /\ pc' = "done"
    /\ UNCHANGED <<env, redditData, bingData, aggregatedData, useRealData,
                   blockRaised, calls, thrown, parseInput, parseOutput>>
    /\ UNCHANGED <<adapterVars, handlerVars>>

MessagesCreateRethrows ==
    /\ pc = "generating"
    /\ \E errorMessage \in GenErrors :
          /\ message' = [kind |-> "error", text |-> <<errorMessage>>]
          /\ thrown' = <<errorMessage>>
    /\ pc' = "rejected"
    /\ UNCHANGED <<env, redditData, bingData, aggregatedData, useRealData,
                   blockRaised, calls, result, parseInput, parseOutput>>
    /\ UNCHANGED <<adapterVars, handlerVars>>

\* client.messages.create rejects: the outer catch builds the error result
MessagesCreateRejects ==
    /\ pc = "generating"
    /\ \E errorMessage \in GenErrors :
          /\ message' = [kind |-> "error", text |-> <<errorMessage>>]
          /\ result' = analyzeBrandSentimentCatch(errorMessage)
    /\ pc' = "done"
    /\ UNCHANGED <<env, redditData, bingData, aggregatedData, useRealData,
                   blockRaised, calls, thrown, parseInput, parseOutput>>
    /\ UNCHANGED <<adapterVars, handlerVars>>

Next ==
    \/ AnalyzeSocialListening
    \/ SearchRedditResolves
    \/ SearchBingResolves
    \/ AggregateAndSelect
    \/ GuardedBlockRaises
    \/ MessagesCreateResolves
    \/ MessagesCreateRejects

Spec == Init /\ [][Next]_vars

----------------------------------------------------------------------------
(* parseResponse called on its own *)

InitParse ==
    /\ env = [anthropic |-> TRUE, reddit |-> TRUE, serper |-> TRUE]
    /\ pc = "parse"
    /\ redditData = NotYet
    /\ bingData = NotYet
    /\ aggregatedData = NoData
    /\ useRealData = FALSE
    /\ blockRaised = FALSE
    /\ calls = [real |-> 0, knowledge |-> 0, create |-> 0]
    /\ message = NotYet
    /\ result = NotYet
    /\ thrown = <<>>
    /\ parseInput \in ParseInputs
    /\ parseOutput = NotYet
    /\ AdaptersIdle
    /\ HandlersIdle

ParseResponseCall ==
    /\ pc = "parse"
    /\ parseOutput' = parseResponse(parseInput)
    /\ pc' = "parsed"
    /\ UNCHANGED <<env, redditData, bingData, aggregatedData, useRealData,
                   blockRaised, calls, message, result, thrown, parseInput>>
    /\ UNCHANGED <<adapterVars, handlerVars>>

NextParse == ParseResponseCall

SpecParse == InitParse /\ [][NextParse]_vars

----------------------------------------------------------------------------
(* Source adapters, call by call *)

\* this.targetSubreddits of RedditService
AllTargetSubreddits ==
    <<"SaaS", "technology", "startups", "entrepreneur", "smallbusiness",
      "Entrepreneur", "webdev", "programming", "software", "business">>

\* how many of them the model searches
NumSubreddits == 2

targetSubreddits == SubSeq(AllTargetSubreddits, 1, NumSubreddits)

Subreddits == {targetSubreddits[i] : i \in 1..Len(targetSubreddits)}

\* the four category searches of SerperSearchService
Categories == {"linkedin", "twitter", "reviews", "blogs"}

\* the queries array of searchLinkedIn, searchTwitter, searchReviewSites and
\* searchBlogs has three entries
QueriesPerCategory == 3

\* errors a transport call (snoowrap search, axios post) fails with
TransportErrors == {"429", "network"}

\* posts as extractPostData returns them; containsBrand and removed stand for
\* what filterByRelevance reads from author, title and body
RawPost(u, s, n, b, r) ==
    [url |-> u, score |-> s, numComments |-> n, containsBrand |-> b, removed |-> r]

RawPosts ==
    {RawPost("u1", 5, 0, TRUE, FALSE),
     RawPost("u2", 0, 3, TRUE, FALSE),
     RawPost("u1", 0, 0, TRUE, FALSE),
     RawPost("u2", 5, 1, FALSE, FALSE),
     RawPost("u1", 5, 1, TRUE, TRUE)}

\* listings one subreddit search can resolve with
SubredditListings == {<<>>} \cup {<<p>> : p \in RawPosts}

\* result lists one executeSerperSearch call can resolve with
QueryResults == {<<>>, <<WebResult("u1")>>}

\* the platforms argument of searchSerper, as what the code reads from it:
\* whether it is 'all', and which of the keywords it contains in lower case
PlatformArgs ==
    {[all |-> TRUE, keywords |-> {}],
     [all |-> FALSE, keywords |-> {"linkedin"}],
     [all |-> FALSE, keywords |-> {"x", "medium"}],
     [all |-> FALSE, keywords |-> {}]}

\* the shouldSearch table of searchSerper
shouldSearch(platforms, category) ==
    \/ platforms.all
    \/ CASE category = "linkedin" -> "linkedin" \in platforms.keywords
         [] category = "twitter" -> platforms.keywords \cap {"twitter", "x"} # {}
         [] category = "reviews" -> platforms.keywords \cap {"g2", "capterra"} # {}
         [] category = "blogs" -> platforms.keywords \cap {"blog", "medium"} # {}

\* RedditService.filterByRelevance
filterByRelevance(posts) ==
    SelectSeq(posts, LAMBDA post :
        /\ ~post.removed
        /\ post.containsBrand
        /\ ~(post.score < 1 /\ post.numComments = 0))

\* an engagement that counts a comment once
EngagementUnweighted(post) == post.score + post.numComments

\* "score + (numComments * 2)"
Engagement(post) == post.score + post.numComments * 2

\* RedditService.sortByEngagement: a stable sort, highest engagement first
RECURSIVE sortByEngagement(_)
sortByEngagement(posts) ==
    IF posts = <<>> THEN <<>>
    ELSE LET front == sortByEngagement(SubSeq(posts, 1, Len(posts) - 1))
             last == posts[Len(posts)]
             ahead == {i \in 1..Len(front) : Engagement(front[i]) >= Engagement(last)}
             k == IF ahead = {} THEN 0 ELSE CHOOSE m \in ahead : \A n \in ahead : m >= n
         IN  SubSeq(front, 1, k) \o <<last>> \o SubSeq(front, k + 1, Len(front))

\* "sortedPosts.slice(0, 20)"
TopPosts == 20

slice(posts, n) == SubSeq(posts, 1, IF Len(posts) < n THEN Len(posts) ELSE n)

\* results.flat() over the subreddits in the order of targetSubreddits
RECURSIVE flat(_, _)
flat(order, listings) ==
    IF order = <<>> THEN <<>>
    ELSE listings[Head(order)].posts \o flat(Tail(order), listings)

\* RedditService.searchReddit after "results.flat()": filter by relevance,
\* sort by engagement, return the top posts
rankPosts(allPosts) == slice(sortByEngagement(filterByRelevance(allPosts)), TopPosts)

Resolved(value) == [kind |-> "resolved", value |-> value]

AdapterRunning(fn) == adapterCall.fn = fn /\ adapterResult = NotYet

Started == DOMAIN searches # {}

InitAdapters ==
    /\ env \in [anthropic : {TRUE}, reddit : BOOLEAN, serper : BOOLEAN]
    /\ pc = "adapter"
    /\ redditData = NotYet
    /\ bingData = NotYet
    /\ aggregatedData = NoData
    /\ useRealData = FALSE
    /\ blockRaised = FALSE
    /\ calls = [real |-> 0, knowledge |-> 0, create |-> 0]
    /\ message = NotYet
    /\ result = NotYet
    /\ thrown = <<>>
    /\ parseInput = JsNull
    /\ parseOutput = NotYet
    /\ adapterCall \in {[fn |-> "searchReddit"]}
                       \cup {[fn |-> "searchSerper", platforms |-> p] : p \in PlatformArgs}
    /\ searches = <<>>
    /\ issued = <<>>
    /\ outcomes = {}
    /\ adapterResult = NotYet
    /\ HandlersIdle

\* searchReddit (module export) up to its first await: the credential check,
\* the constructor, and the start of one search per target subreddit
SearchRedditCalled ==
    /\ AdapterRunning("searchReddit")
    /\ ~Started
    /\ IF ~env.reddit
       THEN /\ adapterResult' = Resolved(
                  [posts |-> <<>>,
                   formattedText |->
                       <<"Reddit data unavailable (API credentials not configured)">>])
            /\ UNCHANGED <<searches, issued>>
       ELSE /\ searches' = [s \in Subreddits |-> [status |-> "pending", posts |-> <<>>]]
            /\ issued' = [s \in Subreddits |-> 1]
            /\ UNCHANGED adapterResult
    /\ UNCHANGED <<runVars, adapterCall, outcomes, handlerVars>>

\* the catch block of searchSubreddit: "return []"
searchSubredditCatch(search) == [status |-> "done", posts |-> <<>>]

\* the search of one subreddit settles
SearchSubredditSettles(s) ==
    /\ AdapterRunning("searchReddit")
    /\ Started
    /\ searches[s].status = "pending"
    /\ \/ \E listing \in SubredditListings :
             /\ searches' = [searches EXCEPT ![s] = [status |-> "done", posts |-> listing]]
             /\ outcomes' = outcomes \cup {"ok"}
       \/ \E error \in TransportErrors :
             /\ searches' = [searches EXCEPT ![s] = searchSubredditCatch(@)]
             /\ outcomes' = outcomes \cup {error}
    /\ UNCHANGED <<runVars, adapterCall, issued, adapterResult, handlerVars>>

\* a join that returns no post when one of the searches failed
SearchRedditJoinsAllOrNothing ==
    /\ AdapterRunning("searchReddit")
    /\ Started
    /\ \A s \in Subreddits : searches[s].status = "done"
    /\ LET allPosts == flat(targetSubreddits, searches)
           posts == IF outcomes \cap TransportErrors # {} THEN <<>>
                    ELSE rankPosts(allPosts)
       IN  adapterResult' = Resolved([posts |-> posts,
                                      formattedText |-> RedditFormatForClaude(posts)])
    /\ UNCHANGED <<runVars, adapterCall, searches, issued, outcomes, handlerVars>>

\* Promise.all over the subreddits resolved: flatten, filter, sort, take the
\* top posts, format, return
SearchRedditJoins ==
    /\ AdapterRunning("searchReddit")
    /\ Started
    /\ \A s \in Subreddits : searches[s].status = "done"
    /\ LET allPosts == flat(targetSubreddits, searches)
           posts == rankPosts(allPosts)
       IN  adapterResult' = Resolved([posts |-> posts,
                                      formattedText |-> RedditFormatForClaude(posts)])
    /\ UNCHANGED <<runVars, adapterCall, searches, issued, outcomes, handlerVars>>

\* an exception inside the try block of the export (the constructor, or the
\* rethrow of RedditService.searchReddit): its catch block returns
SearchRedditRaises ==
    /\ AdapterRunning("searchReddit")
    /\ env.reddit
    /\ adapterResult' = Resolved([posts |-> <<>>,
                                  formattedText |-> <<"Reddit search error">>])
    /\ UNCHANGED <<runVars, adapterCall, searches, issued, outcomes, handlerVars>>

\* searchSerper issuing every query of a category at once
SearchSerperCalledAllQueries ==
    /\ AdapterRunning("searchSerper")
    /\ ~Started
    /\ env.serper
    /\ searches' =
           [c \in Categories |->
               IF shouldSearch(adapterCall.platforms, c)
               THEN [status |-> "pending", query |-> 1, results |-> <<>>]
               ELSE [status |-> "done", query |-> 0, results |-> <<>>]]
    /\ issued' = [c \in Categories |->
                     IF shouldSearch(adapterCall.platforms, c)
                     THEN QueriesPerCategory ELSE 0]
    /\ UNCHANGED <<runVars, adapterCall, outcomes, adapterResult, handlerVars>>

\* searchSerper (module export) up to its first await: the credential check,
\* the shouldSearch table, and the first query of every category it searches
SearchSerperCalled ==
    /\ AdapterRunning("searchSerper")
    /\ ~Started
    /\ IF ~env.serper
       THEN /\ adapterResult' = Resolved(
                  [linkedin |-> <<>>, twitter |-> <<>>, reviews |-> <<>>, blogs |-> <<>>,
                   formattedText |->
                       <<"Web search data unavailable (Serper API key not configured)">>,
                   totalResults |-> 0])
            /\ UNCHANGED <<searches, issued>>
       ELSE /\ searches' =
                  [c \in Categories |->
                      IF shouldSearch(adapterCall.platforms, c)
                      THEN [status |-> "pending", query |-> 1, results |-> <<>>]
                      ELSE [status |-> "done", query |-> 0, results |-> <<>>]]
            /\ issued' = [c \in Categories |->
                             IF shouldSearch(adapterCall.platforms, c) THEN 1 ELSE 0]
            /\ UNCHANGED adapterResult
    /\ UNCHANGED <<runVars, adapterCall, outcomes, handlerVars>>

\* the catch block of executeSerperSearch: log by status, "return []"
executeSerperSearchCatch(error) == <<>>

\* a loop that issues a query once more when it brought nothing
CategoryContinuesWithRetry(c, searchResults) ==
    LET results == searches[c].results \o searchResults
    IN  IF searchResults = <<>> /\ issued[c] = searches[c].query
        THEN /\ issued' = [issued EXCEPT ![c] = @ + 1]
             /\ UNCHANGED searches
        ELSE IF searches[c].query < QueriesPerCategory
        THEN /\ searches' = [searches EXCEPT ![c].query = @ + 1, ![c].results = results]
             /\ issued' = [issued EXCEPT ![c] = @ + 1]
        ELSE /\ searches' = [searches EXCEPT ![c].status = "done",
                                             ![c].results = deduplicateResults(results)]
             /\ UNCHANGED issued

\* the loop of a category search once its query settled with searchResults:
\* push them, then issue the next query or deduplicate and return
CategoryContinues(c, searchResults) ==
    LET results == searches[c].results \o searchResults
    IN  IF searches[c].query < QueriesPerCategory
        THEN /\ searches' = [searches EXCEPT ![c].query = @ + 1, ![c].results = results]
             /\ issued' = [issued EXCEPT ![c] = @ + 1]
        ELSE /\ searches' = [searches EXCEPT ![c].status = "done",
                                             ![c].results = deduplicateResults(results)]
             /\ UNCHANGED issued

\* the query a category search is waiting for settles
ExecuteSerperSearchSettles(c) ==
    /\ AdapterRunning("searchSerper")
    /\ Started
    /\ searches[c].status = "pending"
    /\ \/ \E searchResults \in QueryResults :
             /\ CategoryContinues(c, searchResults)
             /\ outcomes' = outcomes \cup {"ok"}
       \/ \E error \in TransportErrors :
             /\ CategoryContinues(c, executeSerperSearchCatch(error))
             /\ outcomes' = outcomes \cup {error}
    /\ UNCHANGED <<runVars, adapterCall, adapterResult, handlerVars>>

\* Promise.all over the four categories resolved: count, format, return
SearchSerperJoins ==
    /\ AdapterRunning("searchSerper")
    /\ Started
    /\ \A c \in Categories : searches[c].status = "done"
    /\ LET totalResults == Len(searches["linkedin"].results)
                           + Len(searches["twitter"].results)
                           + Len(searches["reviews"].results)
                           + Len(searches["blogs"].results)
       IN  adapterResult' = Resolved(
               [linkedin |-> searches["linkedin"].results,
                twitter |-> searches["twitter"].results,
                reviews |-> searches["reviews"].results,
                blogs |-> searches["blogs"].results,
                formattedText |-> SerperFormatForClaude(totalResults),
                totalResults |-> totalResults])
    /\ UNCHANGED <<runVars, adapterCall, searches, issued, outcomes, handlerVars>>

\* an exception inside the try block of the export: its catch block returns
SearchSerperRaises ==
    /\ AdapterRunning("searchSerper")
    /\ env.serper
    /\ adapterResult' = Resolved(
           [linkedin |-> <<>>, twitter |-> <<>>, reviews |-> <<>>, blogs |-> <<>>,
            formattedText |-> <<"Web search error">>,
            totalResults |-> 0])
    /\ UNCHANGED <<runVars, adapterCall, searches, issued, outcomes, handlerVars>>

NextAdapters ==
    \/ SearchRedditCalled
    \/ \E s \in Subreddits : SearchSubredditSettles(s)
    \/ SearchRedditJoins
    \/ SearchRedditRaises
    \/ SearchSerperCalled
    \/ \E c \in Categories : ExecuteSerperSearchSettles(c)
    \/ SearchSerperJoins
    \/ SearchSerperRaises

SpecAdapters == InitAdapters /\ [][NextAdapters]_vars

----------------------------------------------------------------------------
(* RedditService.searchReddit on the flattened listings of all subreddits *)

\* the largest number of generated posts in a flattened listing
MaxPad == 20

\* the i-th post of a generated listing: scores 0, 6, 12, 18 and 0 to 2
\* comments; with g.d = 5 every fifth post does not name the brand
PadPost(i, g) ==
    RawPost(IF i % 2 = 1 THEN "u1" ELSE "u2",
            ((g.a * i + g.b) % 4) * 6,
            (g.c * i) % 3,
            g.d = 0 \/ i % 5 # 0,
            FALSE)

Pad(n, g) == [i \in 1..n |-> PadPost(i, g)]

PadGenerators == [a : {0, 1, 3}, b : {0, 1}, c : {0, 1}, d : {0, 5}]

\* a post with score 15 and no comment, a post with score 10 and 5 comments
ScoredPost == RawPost("u1", 15, 0, TRUE, FALSE)

DiscussedPost == RawPost("u2", 10, 5, TRUE, FALSE)

\* flattened listings: up to ten posts of each of the ten subreddits
FlatListings ==
    {Pad(n, g) \o tail :
        n \in 0..MaxPad, g \in PadGenerators,
        tail \in {<<>>, <<ScoredPost, DiscussedPost>>, <<DiscussedPost, ScoredPost>>}}

InitRanking ==
    /\ env = [anthropic |-> TRUE, reddit |-> TRUE, serper |-> TRUE]
    /\ pc = "ranking"
    /\ redditData = NotYet
    /\ bingData = NotYet
    /\ aggregatedData = NoData
    /\ useRealData = FALSE
    /\ blockRaised = FALSE
    /\ calls = [real |-> 0, knowledge |-> 0, create |-> 0]
    /\ message = NotYet
    /\ result = NotYet
    /\ thrown = <<>>
    /\ parseInput = JsNull
    /\ parseOutput = NotYet
    /\ adapterCall \in {[fn |-> "RedditService.searchReddit", allPosts |-> l] :
                            l \in FlatListings}
    /\ searches = <<>>
    /\ issued = <<>>
    /\ outcomes = {}
    /\ adapterResult = NotYet
    /\ HandlersIdle

\* the method filters, sorts and returns the top posts
SearchRedditRanks ==
    /\ AdapterRunning("RedditService.searchReddit")
    /\ adapterResult' = Resolved(rankPosts(adapterCall.allPosts))
    /\ UNCHANGED <<runVars, adapterCall, searches, issued, outcomes, handlerVars>>

NextRanking == SearchRedditRanks

SpecRanking == InitRanking /\ [][NextRanking]_vars

----------------------------------------------------------------------------
(* RedditService.parseTimeRange; here a string is a sequence of characters *)

\* the largest number of pieces a time range is put together from
MaxPieces == 3

Pieces ==
    {<<"2">>, <<"4">>, <<"7">>, <<"3">>, <<"0">>, <<" ">>,
     <<"h", "o", "u", "r">>, <<"H", "O", "U", "R">>,
     <<"W", "e", "e", "k">>, <<"m", "o", "n", "t", "h">>,
     <<"Y", "E", "A", "R">>, <<"d", "a", "y", "s">>}

RECURSIVE Concat(_)
Concat(pieces) == IF pieces = <<>> THEN <<>> ELSE Head(pieces) \o Concat(Tail(pieces))

\* the timeRange argument
TimeRanges ==
    {Concat(pieces) : pieces \in UNION {[1..n -> Pieces] : n \in 0..MaxPieces}}

parseTimeRange(timeRange) ==
    LET rangeLower == toLowerCase(timeRange)
    IN  IF includes(rangeLower, <<"2", "4">>) \/ includes(rangeLower, <<"h", "o", "u", "r">>)
        THEN "day"
        ELSE IF includes(rangeLower, <<"7">>) \/ includes(rangeLower, <<"w", "e", "e", "k">>)
        THEN "week"
        ELSE IF includes(rangeLower, <<"3", "0">>)
                \/ includes(rangeLower, <<"m", "o", "n", "t", "h">>)
        THEN "month"
        ELSE IF includes(rangeLower, <<"y", "e", "a", "r">>)
        THEN "year"
        ELSE "week"

InitTimeRange ==
    /\ env = [anthropic |-> TRUE, reddit |-> TRUE, serper |-> TRUE]
    /\ pc = "timeRange"
    /\ redditData = NotYet
    /\ bingData = NotYet
    /\ aggregatedData = NoData
    /\ useRealData = FALSE
    /\ blockRaised = FALSE
    /\ calls = [real |-> 0, knowledge |-> 0, create |-> 0]
    /\ message = NotYet
    /\ result = NotYet
    /\ thrown = <<>>
    /\ parseInput = JsNull
    /\ parseOutput = NotYet
    /\ adapterCall \in {[fn |-> "parseTimeRange", timeRange |-> t] : t \in TimeRanges}
    /\ searches = <<>>
    /\ issued = <<>>
    /\ outcomes = {}
    /\ adapterResult = NotYet
    /\ HandlersIdle

ParseTimeRangeCall ==
    /\ AdapterRunning("parseTimeRange")
    /\ adapterResult' = Resolved(parseTimeRange(adapterCall.timeRange))
    /\ UNCHANGED <<runVars, adapterCall, searches, issued, outcomes, handlerVars>>

NextTimeRange == ParseTimeRangeCall

SpecTimeRange == InitTimeRange /\ [][NextTimeRange]_vars

----------------------------------------------------------------------------
(* Workflow-step handlers of the Slack app *)

\* the listener of app.event('function_executed') and the listener of
\* app.function('social_listening_report')
HandlerNames == {"event", "function"}

\* values of inputs.brand_or_product
BrandInputs == {JsUndefined, Str(<<>>), Str(<<"Acme">>)}

\* values of event.function.callback_id
CallbackIds == {"social_listening_report", "other_function"}

\* what analyzeSocialListening resolves with; every one carries a timestamp
AnalysisResults ==
    {WithDataSource(analyzeWithClaudeKnowledge(reply), "fallback") : reply \in GenReplies}
    \cup {WithDataSource(analyzeBrandSentimentCatch(e), "error") : e \in GenErrors}

\* the method a handler completes the step with, and the one it fails it with
SuccessMethod(h) == IF h = "event" THEN "functions.completeSuccess" ELSE "complete"

ErrorMethod(h) == IF h = "event" THEN "functions.completeError" ELSE "fail"

\* the message of the validation error
BrandRequired(h) ==
    IF h = "event"
    THEN <<"Brand/Product Name parameter is required but was not provided">>
    ELSE <<"Brand/Product Name parameter is required">>

\* the default message of an output field
DefaultOutput(h, field) ==
    CASE field = "sentiment_summary" ->
            <<E_CHART, " ", "Unable to determine sentiment distribution.">>
      [] field = "positive_highlights" ->
            <<E_CHECK, " ", "No significant positive highlights identified.">>
      [] field = "negative_concerns" ->
            IF h = "event"
            THEN <<E_WARN, " ", "No critical concerns identified at this time.">>
            ELSE <<E_WARN, " ", "No critical concerns identified.">>
      [] field = "trending_topics" -> <<E_FIRE, " ", "No trending topics detected.">>
      [] field = "competitive_insights" ->
            <<E_TARGET, " ", "No competitive insights available.">>
      [] field = "full_report" -> <<"# Social Listening Report", "**Brand:** ">>

OutputAlwaysPrefixed(h, field, emoji, text) == <<emoji, " ">> \o text

\* "analysis.x ? `<emoji> ${analysis.x}` : '<emoji> <default message>'"
Output(h, field, emoji, text) ==
    IF text # <<>> THEN <<emoji, " ">> \o text ELSE DefaultOutput(h, field)

\* the outputs object both handlers build from the analysis
Outputs(h, analysis) ==
    [sentiment_summary |->
        Output(h, "sentiment_summary", E_CHART, analysis.sentimentSummary),
     positive_highlights |->
        Output(h, "positive_highlights", E_CHECK, analysis.positiveHighlights),
     negative_concerns |->
        Output(h, "negative_concerns", E_WARN, analysis.negativeConcerns),
     trending_topics |->
        Output(h, "trending_topics", E_FIRE, analysis.trendingTopics),
     competitive_insights |->
        Output(h, "competitive_insights", E_TARGET, analysis.competitiveInsights),
     full_report |-> IF Truthy(analysis.fullReport) THEN analysis.fullReport.text
                     ELSE DefaultOutput(h, "full_report"),
     has_critical_issues |-> IF analysis.hasCriticalIssues THEN <<"true">>
                             ELSE <<"false">>,
     report_timestamp |-> <<"ISO 8601 timestamp">>]

MissingBrandUndefinedOnly(inputs) == inputs.brand_or_product = JsUndefined

\* "if (!brand_or_product)"
MissingBrand(inputs) == ~Truthy(inputs.brand_or_product)

\* whether Bolt hands the event to the listener: the event listener receives
\* every function_executed event, the function listener those of its callback
Dispatched(h) ==
    /\ event.kind = "function_executed"
    /\ h = "function" => event.callback_id = "social_listening_report"

Send(h, call) == [handlers EXCEPT ![h].sent = Append(@, call)]

InitHandlers ==
    /\ env \in [anthropic : BOOLEAN, reddit : {TRUE}, serper : {TRUE}]
    /\ pc = "handlers"
    /\ redditData = NotYet
    /\ bingData = NotYet
    /\ aggregatedData = NoData
    /\ useRealData = FALSE
    /\ blockRaised = FALSE
    /\ calls = [real |-> 0, knowledge |-> 0, create |-> 0]
    /\ message = NotYet
    /\ result = NotYet
    /\ thrown = <<>>
    /\ parseInput = JsNull
    /\ parseOutput = NotYet
    /\ AdaptersIdle
    /\ event \in [kind : {"function_executed"}, callback_id : CallbackIds,
                  brand_or_product : BrandInputs]
    /\ handlers = [h \in HandlerNames |->
                      [pc |-> "idle", analysis |-> NotYet, runs |-> 0, sent |-> <<>>]]

\* the catch block of a handler.  The event listener reports the error with
\* functions.completeError.  The function listener builds fallbackOutputs
\* first, whose full_report reads brand_or_product: a const of the try block,
\* not in scope in the catch block, so the listener ends with a ReferenceError
\* before it calls complete
HandlerCatch(h, errorMessage) ==
    IF h = "event"
    THEN [Send(h, [method |-> ErrorMethod(h),
                   error |-> <<"Social listening analysis failed: ">> \o errorMessage])
             EXCEPT ![h].pc = "reporting"]
    ELSE [handlers EXCEPT ![h].pc = "rejected"]

\* a listener up to its first await: the callback_id check of the event
\* listener, the validation of brand_or_product, the start of the analysis
HandlerCalled(h) ==
    /\ Dispatched(h)
    /\ handlers[h].pc = "idle"
    /\ handlers' =
          IF h = "event" /\ event.callback_id # "social_listening_report"
          THEN [handlers EXCEPT ![h].pc = "returned"]
          ELSE IF MissingBrand(event)
          THEN [Send(h, [method |-> ErrorMethod(h), error |-> BrandRequired(h)])
                   EXCEPT ![h].pc = "failing"]
          ELSE [handlers EXCEPT ![h].pc = "analysing", ![h].runs = @ + 1]
    /\ UNCHANGED <<runVars, adapterVars, event>>

\* analyzeSocialListening resolves: build the outputs, send the completion
AnalysisResolves(h) ==
    /\ handlers[h].pc = "analysing"
    /\ env.anthropic
    /\ \E analysis \in AnalysisResults :
          handlers' = [Send(h, [method |-> SuccessMethod(h),
                                outputs |-> Outputs(h, analysis)])
                          EXCEPT ![h].pc = "completing", ![h].analysis = analysis]
    /\ UNCHANGED <<runVars, adapterVars, event>>

\* analyzeSocialListening rejects: the credential of the text generation is
\* not configured
AnalysisRejects(h) ==
    /\ handlers[h].pc = "analysing"
    /\ ~env.anthropic
    /\ handlers' = HandlerCatch(h, <<"ANTHROPIC_API_KEY environment variable is not set">>)
    /\ UNCHANGED <<runVars, adapterVars, event>>

\* the completion call a listener awaits resolves
CompletionResolves(h) ==
    /\ handlers[h].pc \in {"failing", "completing", "reporting"}
    /\ handlers' = [handlers EXCEPT ![h].pc = "returned"]
    /\ UNCHANGED <<runVars, adapterVars, event>>

\* the completion call a listener awaits rejects: the catch block, or for the
\* functions.completeError of the catch block itself its inner catch
CompletionRejects(h) ==
    /\ handlers[h].pc \in {"failing", "completing", "reporting"}
    /\ handlers' = IF handlers[h].pc = "reporting"
                   THEN [handlers EXCEPT ![h].pc = "returned"]
                   ELSE HandlerCatch(h, <<"An API error occurred">>)
    /\ UNCHANGED <<runVars, adapterVars, event>>

NextHandlers ==
    \E h \in HandlerNames :
        \/ HandlerCalled(h)
        \/ AnalysisResolves(h)
        \/ AnalysisRejects(h)
        \/ CompletionResolves(h)
        \/ CompletionRejects(h)

SpecHandlers == InitHandlers /\ [][NextHandlers]_vars

----------------------------------------------------------------------------
(* Properties of the analysis run *)

WebPlatforms == {"linkedin", "twitter", "reviews", "blogs"}

ContentFields ==
    {"sentimentSummary", "positiveHighlights", "negativeConcerns",
     "trendingTopics", "competitiveInsights"}

ResultFields == ContentFields \cup {"fullReport", "hasCriticalIssues", "dataSource"}

PathSelected == pc \in {"generating", "done"}

Aggregated == aggregatedData # NoData

\* the sum of the lengths of the record lists of all buckets
RecordCount(agg) ==
    Len(agg.reddit.posts) + Len(agg.linkedin.results) + Len(agg.twitter.results)
    + Len(agg.reviews.results) + Len(agg.blogs.results)

\* the text-generation call failed and the outer handler built the result
OuterHandlerRan == pc = "done" /\ message.kind = "error"

HasErrorBanner(report, errorMessage) ==
    /\ report.kind = "string"
    /\ Len(report.text) > 0
    /\ report.text[1] = "# Social Listening Analysis Error"
    /\ \E i \in 1..Len(report.text) : report.text[i] = errorMessage

\* C1: once a run has selected its path, exactly one of the two analysis
\* methods has been called, and it is analyzeWithClaudeKnowledge iff the
\* guarded block raised or the aggregated totalSources is 0, and
\* analyzeWithRealData otherwise.
C1_PathSelection ==
    LET fallbackCondition ==
            blockRaised \/ aggregatedData.aggregateStats.totalSources = 0
    IN  IF PathSelected
        THEN /\ calls.real + calls.knowledge = 1
             /\ calls.knowledge = 1 <=> fallbackCondition
             /\ calls.real = 1 <=> ~fallbackCondition
        ELSE calls.real = 0 /\ calls.knowledge = 0

\* a run whose fetches returned nothing although both adapters were
\* configured, and which therefore took the knowledge path
C1_Witness ==
    /\ pc = "done"
    /\ env.reddit /\ env.serper
    /\ ~blockRaised
    /\ Aggregated
    /\ aggregatedData.aggregateStats.totalSources = 0
    /\ calls.knowledge = 1

\* C2 as stated, for a failure of the text-generation call: the call returns
\* a result with hasCriticalIssues, five empty content fields and an error
\* banner that contains the error message.
C2_AsStated ==
    OuterHandlerRan =>
        /\ result.hasCriticalIssues
        /\ \A f \in ContentFields : result[f] = <<>>
        /\ HasErrorBanner(result.fullReport, message.text[1])

\* C2 amended: every exception that reaches the outer handler (a failure of
\* the text-generation call on either path) ends in a normal return whose
\* result has hasCriticalIssues, empty positiveHighlights, trendingTopics and
\* competitiveInsights, the two fixed error messages in sentimentSummary and
\* negativeConcerns, and an error banner with the error message in fullReport.
C2_ErrorResult ==
    OuterHandlerRan =>
        /\ thrown = <<>>
        /\ result.hasCriticalIssues
        /\ \A f \in {"positiveHighlights", "trendingTopics", "competitiveInsights"} :
              result[f] = <<>>
        /\ result.sentimentSummary =
              <<"Error: Unable to complete social listening analysis. Please check API credentials and try again.">>
        /\ result.negativeConcerns = <<"Analysis error occurred.">>
        /\ HasErrorBanner(result.fullReport, message.text[1])

\* the text-generation call of the real-data path failed
C2_Witness == OuterHandlerRan /\ calls.real = 1 /\ message.text = <<"429 rate_limit_error">>

\* C3 as stated: analyzeSocialListening never raises to its caller, whatever
\* the configuration.
C3_AsStated == thrown = <<>> /\ pc # "rejected"

\* C3 amended: with the text-generation credential configured
\* analyzeSocialListening never raises and every finished run returns a
\* result with all the fields of an AnalysisResult; without it the call
\* raises the missing-credential error before any fetch or generation call.
C3_NeverRaisesWithKey ==
    IF env.anthropic
    THEN /\ thrown = <<>>
         /\ pc # "rejected"
         /\ pc = "done" => DOMAIN result = ResultFields
    ELSE /\ pc \in {"start", "rejected"}
         /\ pc = "rejected" =>
               thrown = <<"ANTHROPIC_API_KEY environment variable is not set">>
         /\ result = NotYet
         /\ calls.create = 0
         /\ redditData = NotYet /\ bingData = NotYet

\* a configured run without adapter credentials whose text-generation call
\* failed on the knowledge path, and which still returned a result
C3_Witness ==
    /\ env.anthropic /\ ~env.reddit /\ ~env.serper
    /\ pc = "done"
    /\ ~blockRaised
    /\ calls.knowledge = 1
    /\ message.kind = "error"
    /\ DOMAIN result = ResultFields

\* C4: in the corpus aggregateResults returned, dataSource is real-time iff
\* the forum bucket and at least one web bucket are non-empty, partial iff
\* exactly one of the two categories is non-empty, fallback iff both are empty.
C4_DataSourceStatus ==
    Aggregated =>
        LET forum == Len(aggregatedData.reddit.posts) > 0
            web == \E p \in WebPlatforms : Len(aggregatedData[p].results) > 0
        IN  /\ aggregatedData.dataSource = "real-time" <=> (forum /\ web)
            /\ aggregatedData.dataSource = "partial" <=> (forum # web)
            /\ aggregatedData.dataSource = "fallback" <=> (~forum /\ ~web)

\* a corpus with forum posts in which deduplication emptied a web bucket
C4_Witness ==
    /\ Aggregated
    /\ Len(aggregatedData.reddit.posts) > 0
    /\ \E p \in WebPlatforms :
          Len(bingData[p]) > 0 /\ Len(aggregatedData[p].results) = 0
    /\ aggregatedData.dataSource = "real-time"

\* C5: in a run that did not end in the outer error handler the final
\* dataSource is fallback when the knowledge path was taken, and is the
\* aggregator's dataSource, one of real-time and partial, when the real-data
\* path was taken; two forum posts and no web results give the real-data path
\* and partial.
C5_FinalDataSource ==
    (pc = "done" /\ message.kind = "ok") =>
        /\ calls.knowledge = 1 => result.dataSource = "fallback"
        /\ calls.real = 1 =>
              /\ Aggregated
              /\ result.dataSource = aggregatedData.dataSource
              /\ result.dataSource \in {"real-time", "partial"}
        /\ (redditData # NotYet /\ bingData # NotYet /\ ~blockRaised
            /\ Len(redditData.posts) = 2 /\ bingData.totalResults = 0) =>
              calls.real = 1 /\ result.dataSource = "partial"

\* a finished knowledge-path run whose dataSource was read from a corpus the
\* aggregator did compute
C5_Witness ==
    /\ pc = "done"
    /\ message.kind = "ok"
    /\ calls.knowledge = 1
    /\ Aggregated
    /\ result.dataSource = "fallback"

\* C6: in the corpus aggregateResults returned, totalSources is the sum of the
\* record counts of all buckets as they stand after deduplication, and each
\* bucket's stored count is the length of its record list.
C6_TotalSources ==
    Aggregated =>
        /\ aggregatedData.aggregateStats.totalSources = RecordCount(aggregatedData)
        /\ aggregatedData.reddit.totalMentions = Len(aggregatedData.reddit.posts)
        /\ \A p \in WebPlatforms :
              aggregatedData[p].totalResults = Len(aggregatedData[p].results)

\* a corpus from which deduplication dropped two web records
C6_Witness ==
    /\ Aggregated
    /\ aggregatedData.aggregateStats.totalSources > 0
    /\ RecordCount(aggregatedData) + 2
          = Len(redditData.posts) + bingData.totalResults

\* C14: a run has issued no text-generation call before it selects its path
\* and exactly one from then on, on the real-data path and on the fallback
\* path alike, whether the call succeeds or fails.
C14_OneGenerationCall ==
    /\ calls.create = IF PathSelected THEN 1 ELSE 0
    /\ PathSelected => calls.create = calls.real + calls.knowledge

\* a finished real-data run over a partial corpus whose only text-generation
\* call failed
C14_Witness ==
    /\ pc = "done"
    /\ Aggregated
    /\ aggregatedData.dataSource = "partial"
    /\ calls.real = 1
    /\ calls.create = 1
    /\ message.kind = "error"

\* the tokens of a string
Tokens(t) == {t[i] : i \in 1..Len(t)}

\* C15: after a run whose text-generation call succeeded, fullReport is a
\* banner followed by the reply, unchanged.  On the real-data path the banner
\* says real-time API data iff the aggregator's dataSource is real-time and
\* partial API data otherwise, and gives the totalSources and the platform
\* names of the aggregate statistics; on the fallback path it says that
\* training data was used.
C15_ReportBanner ==
    (pc = "done" /\ message.kind = "ok") =>
        LET report == result.fullReport.text
            reply == message.text
            n == Len(report) - Len(reply)
            banner == SubSeq(report, 1, n)
        IN  /\ result.fullReport.kind = "string"
            /\ n > 0
            /\ SubSeq(report, n + 1, Len(report)) = reply
            /\ calls.real = 1 =>
                  /\ banner[1] = "# Social Listening Report (Real-Time Data)"
                  /\ "Real-time API data" \in Tokens(banner)
                        <=> aggregatedData.dataSource = "real-time"
                  /\ "Partial API data" \in Tokens(banner)
                        <=> aggregatedData.dataSource # "real-time"
                  /\ ToString(aggregatedData.aggregateStats.totalSources) \in Tokens(banner)
                  /\ Tokens(aggregatedData.aggregateStats.platforms) \subseteq Tokens(banner)
            /\ calls.knowledge = 1 =>
                  /\ banner[1] = "# Social Listening Report (Training Data Fallback)"
                  /\ "Using Claude training data (API data unavailable)" \in Tokens(banner)

\* a successful real-data run over web results only, whose report starts with
\* the banner of partial data
C15_Witness ==
    /\ pc = "done"
    /\ message.kind = "ok"
    /\ calls.real = 1
    /\ aggregatedData.reddit.totalMentions = 0
    /\ aggregatedData.dataSource = "partial"
    /\ result.fullReport.text[3] = "Partial API data"
    /\ Len(result.fullReport.text) > Len(message.text)

\* the web buckets in the order deduplicateEntries visits them
WebOrder == <<"linkedin", "twitter", "reviews", "blogs">>

\* the urls of a list of records
UrlsOf(records) == {records[i].url : i \in 1..Len(records)}

\* the urls the web adapter returned in the buckets visited before platform
EarlierUrls(platform) ==
    UNION {UrlsOf(bingData[WebOrder[k]]) :
              k \in {j \in 1..Len(WebOrder) :
                        \E m \in (j + 1)..Len(WebOrder) : WebOrder[m] = platform}}

\* the first n records of list without those whose url is banned or occurs
\* earlier in list
RECURSIVE FirstOccurrences(_, _, _)
FirstOccurrences(list, n, banned) ==
    IF n = 0 THEN <<>>
    ELSE LET front == FirstOccurrences(list, n - 1, banned)
             dup == \/ list[n].url \in banned
                    \/ \E j \in 1..(n - 1) : list[j].url = list[n].url
         IN  IF dup THEN front ELSE Append(front, list[n])

PlatformName(bucket) ==
    CASE bucket = "reddit" -> "Reddit"
      [] bucket = "linkedin" -> "LinkedIn"
      [] bucket = "twitter" -> "Twitter/X"
      [] bucket = "reviews" -> "Review Sites"
      [] bucket = "blogs" -> "Blogs"

\* the number of records of a bucket of the corpus
BucketCount(agg, bucket) ==
    IF bucket = "reddit" THEN Len(agg.reddit.posts) ELSE Len(agg[bucket].results)

\* C18 as stated: in the corpus aggregateResults returned the platforms list
\* names exactly the buckets that hold at least one record, and every count
\* of platformBreakdown is the number of records of its bucket.
C18_AsStated ==
    Aggregated =>
        /\ Tokens(aggregatedData.aggregateStats.platforms) =
              {PlatformName(b) : b \in {c \in WebPlatforms \cup {"reddit"} :
                                           BucketCount(aggregatedData, c) > 0}}
        /\ \A b \in WebPlatforms \cup {"reddit"} :
              aggregatedData.aggregateStats.platformBreakdown[b]
                  = BucketCount(aggregatedData, b)

\* the title formatForClaudeAnalysis gives the block of a web bucket
BlockTitle(platform) ==
    CASE platform = "linkedin" -> "LINKEDIN DATA"
      [] platform = "twitter" -> "TWITTER/X DATA"
      [] platform = "reviews" -> "REVIEW SITES DATA"
      [] platform = "blogs" -> "BLOGS & FORUMS DATA"

\* the position of the first occurrence of a token, 0 when there is none
IndexOf(text, token) ==
    LET at == {i \in 1..Len(text) : text[i] = token}
    IN  IF at = {} THEN 0 ELSE CHOOSE i \in at : \A j \in at : i <= j

\* the token that follows the first occurrence of a marker
After(text, marker) == text[IndexOf(text, marker) + 1]

\* the urls the prompt body lists in the block of a web bucket, in order
ListedUrls(text, platform) ==
    LET title == IndexOf(text, BlockTitle(platform))
        ends == {k \in (title + 1)..Len(text) :
                    text[k] \in {BlockTitle(q) : q \in WebPlatforms}
                                \cup {"ANALYSIS INSTRUCTIONS:"}}
        end == CHOOSE k \in ends : \A m \in ends : k <= m
        lines == {k \in (title + 1)..(end - 1) : text[k] = "URL: "}
    IN  IF title = 0 THEN {} ELSE {text[k + 1] : k \in lines}

\* C19 as stated: the number of total sources in the header and in the
\* trailing instructions of formattedForClaude is the totalSources of the
\* returned corpus, and the urls listed in the block of every web bucket are
\* the urls of the records the bucket holds.
C19_AsStated ==
    Aggregated =>
        LET text == aggregatedData.formattedForClaude
            total == ToString(aggregatedData.aggregateStats.totalSources)
        IN  /\ After(text, "TOTAL SOURCES: ") = total
            /\ After(text, "Based on the REAL data above (") = total
            /\ \A p \in WebPlatforms :
                  ListedUrls(text, p) = UrlsOf(aggregatedData[p].results)

\* C20 as stated: formattedForClaude holds the block of a web bucket only
\* when the bucket has a record and the text of the forum adapter only when
\* the forum bucket has a post, and the blocks that are present stand in the
\* order forum, LinkedIn, Twitter/X, review sites, blogs.
C20_AsStated ==
    Aggregated =>
        LET text == aggregatedData.formattedForClaude
            forum == aggregatedData.reddit.formattedText
            at(p) == IndexOf(text, BlockTitle(WebOrder[p]))
        IN  /\ \A p \in WebPlatforms :
                  IndexOf(text, BlockTitle(p)) # 0 => Len(aggregatedData[p].results) >= 1
            /\ Len(aggregatedData.reddit.posts) = 0 => Tokens(forum) \cap Tokens(text) = {}
            /\ \A p, q \in 1..Len(WebOrder) :
                  (p < q /\ at(p) # 0 /\ at(q) # 0) => at(p) < at(q)
            /\ \A p \in 1..Len(WebOrder) :
                  (at(p) # 0 /\ Len(aggregatedData.reddit.posts) > 0) =>
                      IndexOf(text, forum[1]) < at(p)

\* C21: running deduplicateEntries again on the corpus aggregateResults
\* returned changes neither totalSources nor the record list of any bucket.
C21_DedupIdempotent ==
    Aggregated =>
        LET again == deduplicateEntries(aggregatedData)
        IN  /\ again.aggregateStats.totalSources
                  = aggregatedData.aggregateStats.totalSources
            /\ again.reddit.posts = aggregatedData.reddit.posts
            /\ \A p \in WebPlatforms :
                  /\ again[p].results = aggregatedData[p].results
                  /\ again[p].totalResults = aggregatedData[p].totalResults

\* a corpus with forum posts in which the first pass dropped the records of
\* two web buckets, and on which a second pass is run
C21_Witness ==
    /\ Aggregated
    /\ Len(aggregatedData.reddit.posts) > 0
    /\ Cardinality({p \in WebPlatforms :
                       Len(aggregatedData[p].results) < Len(bingData[p])}) >= 2
    /\ deduplicateEntries(aggregatedData) = aggregatedData

\* C25: a fetch resolves only while the run waits for both of them, both
\* having been started; a step that aggregates, and the text-generation call
\* it goes on to, is taken only when the forum fetch and the web fetch have
\* both resolved, and aggregates the results of both.
C25_AggregationAfterBothFetches ==
    [][/\ (redditData' # redditData \/ bingData' # bingData) => pc = "fetching"
       /\ (aggregatedData' # aggregatedData
           \/ (calls'.create > calls.create /\ ~blockRaised'))
          => /\ redditData # NotYet
             /\ bingData # NotYet
             /\ aggregatedData' = aggregateResults(redditData, bingData)
             /\ calls'.create = calls.create + 1]_vars

\* the run aggregated posts and web results and waits for the generated text
C25_Witness ==
    /\ pc = "generating"
    /\ Aggregated
    /\ ~blockRaised
    /\ calls.create = 1
    /\ Len(redditData.posts) > 0
    /\ bingData.totalResults > 0
    /\ aggregatedData = aggregateResults(redditData, bingData)

\* C29 as stated: the dataSource of every result analyzeBrandSentiment
\* returns, the result of the outer catch block included, is real-time,
\* partial or fallback.
C29_AsStated ==
    (pc = "done" /\ ~blockRaised) =>
        result.dataSource \in {"real-time", "partial", "fallback"}

\* C29, amended: the dataSource of a result returned after the generated text
\* arrived is real-time, partial or fallback; the dataSource of the result
\* the outer catch block returns is error.
C29_DataSourceValues ==
    pc = "done" =>
        IF OuterHandlerRan
        THEN result.dataSource = "error"
        ELSE result.dataSource \in {"real-time", "partial", "fallback"}

\* both fetches brought records, the corpus is real-time, the generation call
\* was rejected and the run returned the result of the outer catch block
C29_Witness ==
    /\ pc = "done"
    /\ OuterHandlerRan
    /\ ~blockRaised
    /\ Aggregated
    /\ aggregatedData.dataSource = "real-time"
    /\ result.dataSource = "error"

----------------------------------------------------------------------------
(* Properties of parseResponse *)

FieldOf(section) ==
    CASE section = "sentiment" -> "sentimentSummary"
      [] section = "positive" -> "positiveHighlights"
      [] section = "concerns" -> "negativeConcerns"
      [] section = "trending" -> "trendingTopics"
      [] section = "competitive" -> "competitiveInsights"

ParsedString == pc = "parsed" /\ parseInput.kind = "string"

\* the trimmed capture of a section's pattern; empty when the header is absent
Captured(text, section) ==
    LET m == RegexMatch(text, Pattern(section))
    IN  IF m.matched THEN Trim(m.group) ELSE <<>>

HasHeader(text, section) ==
    \E i \in 1..Len(text) : HeaderEnd(text, i, Pattern(section)) # 0

\* the phrase occurs in s when letter case is ignored
ContainsIgnoringCase(s, phrase) ==
    \E i \in 1..(Len(s) - Len(phrase) + 1) :
        \A k \in 1..Len(phrase) : LowerTok(s[i + k - 1]) = phrase[k]

NegativeResultPhrases == {NoCriticalConcerns, NoSignificantConcerns, NoCriticalIssues}

\* positions where the header marker (emoji and bold text) of a section starts
HeaderStarts(text) ==
    {i \in 1..Len(text) : \E s \in Sections : HeaderEnd(text, i, Pattern(s)) # 0}

\* the text of a section: from the end of its first header to the start of
\* the next header marker of any section, or to the end of the reply
SectionText(text, section) ==
    LET own == {i \in 1..Len(text) : HeaderEnd(text, i, Pattern(section)) # 0}
        first == CHOOSE m \in own : \A n \in own : m <= n
        from == HeaderEnd(text, first, Pattern(section)) + 1
        later == {k \in HeaderStarts(text) : k >= from}
        to == IF later = {} THEN Len(text) + 1
              ELSE CHOOSE m \in later : \A n \in later : m <= n
    IN  SubSeq(text, from, to - 1)

\* the number of lines of t that start with the bullet glyph
BulletLines(t) ==
    Cardinality({i \in 1..Len(t) : t[i] = BULLET /\ (i = 1 \/ t[i - 1] = "\n")})

\* C7: parseResponse sets hasCriticalIssues iff the captured and trimmed
\* concerns text is non-empty and contains none of the three negative-result
\* phrases, letter case ignored; it is false when the concerns header is absent.
C7_CriticalIssues ==
    ParsedString =>
        LET concerns == Captured(parseInput.text, "concerns")
        IN  /\ parseOutput.hasCriticalIssues <=>
                  /\ concerns # <<>>
                  /\ \A phrase \in NegativeResultPhrases :
                        ~ContainsIgnoringCase(concerns, phrase)
            /\ ~HasHeader(parseInput.text, "concerns") => ~parseOutput.hasCriticalIssues

\* a concerns section that states a negative-result phrase in upper case
C7_Witness ==
    /\ ParsedString
    /\ HasHeader(parseInput.text, "concerns")
    /\ includes(Captured(parseInput.text, "concerns"), <<"NO", " ", "CRITICAL", " ", "ISSUES">>)
    /\ ~parseOutput.hasCriticalIssues

\* C8: when all five captures are empty the result has hasCriticalIssues
\* false, the generic messages in sentimentSummary and negativeConcerns, the
\* other three content fields empty, and the input text as fullReport.
C8_NothingExtracted ==
    (ParsedString /\ \A s \in Sections : Captured(parseInput.text, s) = <<>>) =>
        /\ ~parseOutput.hasCriticalIssues
        /\ parseOutput.sentimentSummary = UnableToExtract
        /\ parseOutput.negativeConcerns = ManualReview
        /\ parseOutput.positiveHighlights = <<>>
        /\ parseOutput.trendingTopics = <<>>
        /\ parseOutput.competitiveInsights = <<>>
        /\ parseOutput.fullReport = parseInput

\* a reply with all five headers and no content under any of them
C8_Witness ==
    /\ ParsedString
    /\ \A s \in Sections :
          HasHeader(parseInput.text, s) /\ Captured(parseInput.text, s) = <<>>
    /\ parseOutput.sentimentSummary = UnableToExtract

\* C9 as stated: for an input that is not a string the result has
\* hasCriticalIssues, the unable-to-parse sentimentSummary and a
\* negativeConcerns that says manual review is required.
C9_AsStated ==
    (pc = "parsed" /\ parseInput.kind # "string") =>
        /\ parseOutput.hasCriticalIssues
        /\ parseOutput.sentimentSummary = UnableToParse
        /\ parseOutput.negativeConcerns = ManualReview

\* C9 amended: parseResponse returns a result for every input; for an input
\* that is not a string the result has hasCriticalIssues, the unable-to-parse
\* sentimentSummary, a negativeConcerns that says an error occurred during
\* analysis parsing, the other content fields empty, and as fullReport the
\* input itself when it is truthy and the no-response message otherwise.
C9_NeverRaises ==
    pc = "parsed" =>
        /\ DOMAIN parseOutput = ResultFields \ {"dataSource"}
        /\ parseInput.kind # "string" =>
              /\ parseOutput.hasCriticalIssues
              /\ parseOutput.sentimentSummary = UnableToParse
              /\ parseOutput.negativeConcerns = ParsingErrorOccurred
              /\ parseOutput.positiveHighlights = <<>>
              /\ parseOutput.trendingTopics = <<>>
              /\ parseOutput.competitiveInsights = <<>>
              /\ parseOutput.fullReport =
                    IF Truthy(parseInput) THEN parseInput ELSE Str(NoResponseReceived)

\* parseResponse(null) returned
C9_Witness ==
    /\ pc = "parsed"
    /\ parseInput = JsNull
    /\ parseOutput.fullReport = Str(NoResponseReceived)

\* C10 as stated: for a reply with all five headers, in any order, each
\* followed by exactly three bullet lines, the five content fields are
\* non-empty, each the trimmed text of its own section, and fullReport is the
\* input text.
C10_AsStated ==
    (/\ ParsedString
     /\ \A s \in Sections :
           /\ HasHeader(parseInput.text, s)
           /\ BulletLines(SectionText(parseInput.text, s)) = BulletsPerSection) =>
        /\ \A s \in Sections :
              /\ parseOutput[FieldOf(s)] # <<>>
              /\ parseOutput[FieldOf(s)] = Trim(SectionText(parseInput.text, s))
        /\ parseOutput.fullReport = parseInput

\* the text from the end of the first header of a section to the start of the
\* next header marker of one of the other four sections, or to the end
TextToNextHeader(text, section) ==
    LET own == {i \in 1..Len(text) : HeaderEnd(text, i, Pattern(section)) # 0}
        first == CHOOSE m \in own : \A n \in own : m <= n
        from == HeaderEnd(text, first, Pattern(section)) + 1
        others == {k \in from..Len(text) :
                      \E s \in Sections \ {section} : HeaderEnd(text, k, Pattern(s)) # 0}
        to == IF others = {} THEN Len(text) + 1
              ELSE CHOOSE m \in others : \A n \in others : m <= n
    IN  SubSeq(text, from, to - 1)

----------------------------------------------------------------------------
(* Properties of the adapter calls *)

AdapterResolved == adapterResult.kind = "resolved"

\* the credential of the adapter being executed is not configured
NoCredentials ==
    \/ adapterCall.fn = "searchReddit" /\ ~env.reddit
    \/ adapterCall.fn = "searchSerper" /\ ~env.serper

\* every record the adapter returned, over all its lists
ReturnedRecords ==
    IF adapterCall.fn = "searchReddit" THEN adapterResult.value.posts
    ELSE adapterResult.value.linkedin \o adapterResult.value.twitter
         \o adapterResult.value.reviews \o adapterResult.value.blogs

\* C11: neither adapter export ever rejects; it resolves with a result of its
\* normal shape, and when its credentials are absent or no transport call
\* succeeded the result has empty record lists, a total of zero for the web
\* adapter, and a non-empty status string in formattedText.
C11_AdaptersNeverRaise ==
    /\ adapterResult.kind \in {"notyet", "resolved"}
    /\ AdapterResolved =>
          /\ DOMAIN adapterResult.value =
                IF adapterCall.fn = "searchReddit" THEN {"posts", "formattedText"}
                ELSE Categories \cup {"formattedText", "totalResults"}
          /\ (NoCredentials \/ "ok" \notin outcomes) =>
                /\ ReturnedRecords = <<>>
                /\ adapterCall.fn = "searchSerper" => adapterResult.value.totalResults = 0
                /\ adapterResult.value.formattedText # <<>>

\* a web search over all four categories in which all twelve queries failed
C11_Witness ==
    /\ AdapterResolved
    /\ adapterCall.fn = "searchSerper"
    /\ env.serper
    /\ Started
    /\ \A c \in Categories : searches[c].status = "done" /\ issued[c] = QueriesPerCategory
    /\ outcomes # {}
    /\ outcomes \subseteq TransportErrors
    /\ adapterResult.value.formattedText = <<"No web search results found.">>

\* the adapter returned after all its searches settled, not from its catch
Joined ==
    /\ AdapterResolved
    /\ Started
    /\ \A site \in DOMAIN searches : searches[site].status = "done"
    /\ adapterResult.value.formattedText
          \notin {<<"Reddit search error">>, <<"Web search error">>}

\* the transport calls a search makes when none is repeated: one per
\* subreddit, one per query of a category that is searched
CallsOf(site) ==
    IF adapterCall.fn = "searchReddit" THEN 1
    ELSE IF shouldSearch(adapterCall.platforms, site) THEN QueriesPerCategory
    ELSE 0

\* C16 as stated: when a transport call of an adapter failed with a
\* rate-limit error, the adapter has issued that call again before it
\* returns, so that some search has issued more calls than it has queries.
C16_AsStated ==
    (Joined /\ "429" \in outcomes) =>
        \E site \in DOMAIN issued : issued[site] > CallsOf(site)

Ranked == adapterCall.fn = "RedditService.searchReddit" /\ adapterResult # NotYet

\* how often a post occurs in a list
Occurrences(posts, post) == Cardinality({i \in 1..Len(posts) : posts[i] = post})

Min(a, b) == IF a < b THEN a ELSE b

\* C23: the method returns at most 20 posts in non-increasing order of
\* score + 2 x numComments; they are posts that passed the relevance filter,
\* as many as passed up to 20, and no post left out has a higher engagement
\* than a returned one; a post with score 10 and 5 comments precedes a post
\* with score 15 and no comment.
C23_TopByEngagement ==
    Ranked =>
        LET returned == adapterResult.value
            relevant == filterByRelevance(adapterCall.allPosts)
            engagement(post) == post.score + 2 * post.numComments
        IN  /\ Len(returned) = Min(TopPosts, Len(relevant))
            /\ \A i, j \in 1..Len(returned) :
                  i < j => engagement(returned[i]) >= engagement(returned[j])
            /\ \A i \in 1..Len(returned) :
                  Occurrences(returned, returned[i]) <= Occurrences(relevant, returned[i])
            /\ \A k \in 1..Len(relevant) :
                  Occurrences(returned, relevant[k]) < Occurrences(relevant, relevant[k])
                  => \A i \in 1..Len(returned) :
                        engagement(returned[i]) >= engagement(relevant[k])
            /\ \A i, j \in 1..Len(returned) :
                  returned[i] = DiscussedPost /\ returned[j] = ScoredPost => i < j

\* more than 20 posts passed the filter, the post with 5 comments was listed
\* last and is returned first, ahead of the post with score 15, and posts
\* listed before them were left out
C23_Witness ==
    /\ Ranked
    /\ Len(filterByRelevance(adapterCall.allPosts)) > TopPosts
    /\ Len(adapterResult.value) = TopPosts
    /\ adapterResult.value[1] = DiscussedPost
    /\ adapterResult.value[2] = ScoredPost
    /\ adapterCall.allPosts[Len(adapterCall.allPosts)] = DiscussedPost
    /\ \E i \in 3..Len(adapterResult.value) : adapterResult.value[i].numComments > 0

TimeRangeParsed == adapterCall.fn = "parseTimeRange" /\ adapterResult # NotYet

\* the characters of a word, in either case
Letters(word) ==
    CASE word = "hour" -> <<{"h", "H"}, {"o", "O"}, {"u", "U"}, {"r", "R"}>>
      [] word = "week" -> <<{"w", "W"}, {"e", "E"}, {"e", "E"}, {"k", "K"}>>
      [] word = "month" -> <<{"m", "M"}, {"o", "O"}, {"n", "N"}, {"t", "T"}, {"h", "H"}>>
      [] word = "year" -> <<{"y", "Y"}, {"e", "E"}, {"a", "A"}, {"r", "R"}>>
      [] word = "24" -> <<{"2"}, {"4"}>>
      [] word = "7" -> <<{"7"}>>
      [] word = "30" -> <<{"3"}, {"0"}>>

\* the string holds the word at some position, in whatever case
Mentions(str, word) ==
    \E i \in 0..(Len(str) - Len(Letters(word))) :
        \A k \in 1..Len(Letters(word)) : str[i + k] \in Letters(word)[k]

\* C24: parseTimeRange gives day for a string that holds "24" or "hour" in
\* any case, else week for one that holds "7" or "week", else month for one
\* that holds "30" or "month", else year for one that holds "year", and week
\* for every other string: always one of day, week, month, year.
C24_TimeFilter ==
    TimeRangeParsed =>
        LET t == adapterCall.timeRange
            filter == adapterResult.value
        IN  /\ filter \in {"day", "week", "month", "year"}
            /\ filter = (IF Mentions(t, "24") \/ Mentions(t, "hour") THEN "day"
                         ELSE IF Mentions(t, "7") \/ Mentions(t, "week") THEN "week"
                         ELSE IF Mentions(t, "30") \/ Mentions(t, "month") THEN "month"
                         ELSE IF Mentions(t, "year") THEN "year"
                         ELSE "week")

\* a string with "7", "month" and "HOUR" in capitals is given the day filter
C24_Witness ==
    /\ TimeRangeParsed
    /\ adapterCall.timeRange = <<"7", "m", "o", "n", "t", "h", "H", "O", "U", "R">>
    /\ adapterResult.value = "day"

SerperStarted == adapterCall.fn = "searchSerper" /\ Started

\* C26 as stated: once searchSerper has started its category searches, every
\* category it searches is under way and all the queries of that category have
\* been issued, none waiting for the response to an earlier one.
C26_AsStated ==
    SerperStarted =>
        \A c \in Categories :
            shouldSearch(adapterCall.platforms, c) => issued[c] = QueriesPerCategory

\* C26, amended: the searches of all the categories searchSerper searches are
\* under way together, and within a category the queries are issued one at a
\* time, in turn: the number issued is the position of the query the category
\* waits for, and a further query is issued only in the step in which the
\* pending one settles.
C26_QueriesInTurn ==
    /\ [](SerperStarted =>
            \A c \in Categories :
                /\ shouldSearch(adapterCall.platforms, c) => issued[c] >= 1
                /\ searches[c].status = "pending" => issued[c] = searches[c].query
                /\ issued[c] <= QueriesPerCategory)
    /\ [][SerperStarted /\ SerperStarted' =>
            \A c \in Categories :
                issued'[c] # issued[c] =>
                    /\ issued'[c] = issued[c] + 1
                    /\ searches[c].status = "pending"
                    /\ Len(searches'[c].results) >= Len(searches[c].results)
                    /\ \A d \in Categories \ {c} : issued'[d] = issued[d]]_vars

\* two categories wait for a response at the same time, one for its second
\* query and one still for its first, and a third category has finished
C26_Witness ==
    /\ SerperStarted
    /\ adapterResult = NotYet
    /\ \E c, d, e \in Categories :
          /\ searches[c].status = "pending" /\ issued[c] = 2
          /\ Len(searches[c].results) > 0
          /\ searches[d].status = "pending" /\ issued[d] = 1
          /\ searches[e].status = "done" /\ issued[e] = QueriesPerCategory

RedditStarted == adapterCall.fn = "searchReddit" /\ Started

\* C27: the search of one subreddit settles without touching the search of
\* any other, a search that fails leaves its subreddit with no post, and
\* the posts the adapter returns are the relevant posts of the listings of
\* all subreddits whose search succeeded (all of them while there are no
\* more than 20).
C27_FailuresStayLocal ==
    /\ []((RedditStarted /\ Joined) =>
            LET returned == adapterResult.value.posts
                kept == filterByRelevance(flat(targetSubreddits, searches))
            IN  /\ \A i \in 1..Len(returned) :
                      Occurrences(returned, returned[i]) <= Occurrences(kept, returned[i])
                /\ Len(kept) <= TopPosts =>
                      \A k \in 1..Len(kept) :
                          Occurrences(returned, kept[k]) = Occurrences(kept, kept[k]))
    /\ [][RedditStarted /\ RedditStarted' =>
            \A s \in Subreddits :
                searches'[s] # searches[s] =>
                    /\ searches[s].status = "pending"
                    /\ searches'[s].status = "done"
                    /\ \A t \in Subreddits \ {s} : searches'[t] = searches[t]
                    /\ adapterResult' = adapterResult
                    /\ outcomes' \cap TransportErrors # outcomes \cap TransportErrors
                       => searches'[s].posts = <<>>]_vars

\* the search of one subreddit failed, the search of another one succeeded
\* afterwards, and the adapter returned the post of that one
C27_Witness ==
    /\ RedditStarted
    /\ Joined
    /\ outcomes \cap TransportErrors # {}
    /\ "ok" \in outcomes
    /\ searches[targetSubreddits[1]].posts = <<>>
    /\ Len(searches[targetSubreddits[2]].posts) = 1
    /\ adapterResult.value.posts = searches[targetSubreddits[2]].posts

----------------------------------------------------------------------------
(* Properties of the workflow-step handlers *)

OutputFields ==
    {"sentiment_summary", "positive_highlights", "negative_concerns",
     "trending_topics", "competitive_insights", "full_report",
     "has_critical_issues", "report_timestamp"}

\* the listener ran its validation on an event of the social listening step
Validated(h) ==
    /\ handlers[h].pc # "idle"
    /\ event.callback_id = "social_listening_report"

\* the completion calls a listener sent with the given method
SentWith(h, method) ==
    {i \in 1..Len(handlers[h].sent) : handlers[h].sent[i].method = method}

\* C12: a listener that finds brand_or_product missing or empty first sends
\* its error completion (functions.completeError, fail), never starts an
\* analysis run and never sends a success completion.
C12_MissingBrand ==
    \A h \in HandlerNames :
        (Validated(h) /\ ~Truthy(event.brand_or_product)) =>
            /\ Len(handlers[h].sent) >= 1
            /\ handlers[h].sent[1] = [method |-> ErrorMethod(h), error |-> BrandRequired(h)]
            /\ handlers[h].runs = 0
            /\ handlers[h].analysis = NotYet
            /\ SentWith(h, SuccessMethod(h)) = {}

\* both listeners returned from an event whose brand is the empty string
C12_Witness ==
    /\ event.kind = "function_executed"
    /\ event.brand_or_product = Str(<<>>)
    /\ \A h \in HandlerNames :
          /\ Validated(h)
          /\ handlers[h].pc = "returned"
          /\ SentWith(h, ErrorMethod(h)) # {}

\* the analysis field an output field is built from
AnalysisField(field) ==
    CASE field = "sentiment_summary" -> "sentimentSummary"
      [] field = "positive_highlights" -> "positiveHighlights"
      [] field = "negative_concerns" -> "negativeConcerns"
      [] field = "trending_topics" -> "trendingTopics"
      [] field = "competitive_insights" -> "competitiveInsights"

SectionOutputs == OutputFields \ {"full_report", "has_critical_issues", "report_timestamp"}

CompletionsSent ==
    UNION {{<<h, i>> : i \in DOMAIN handlers[h].sent} : h \in HandlerNames}

====
